---- MODULE Spec2Model ----
(***************************************************************************)
(* The story-generation ("reflection") workflow of the bedtime-story       *)
(* backend: the LangGraph state graph of langgraph_workflow.py, driven by  *)
(* its two callers (the /api/generate-story route of api/routes/stories.py *)
(* and the /api/story route of langgraph_server.py).                       *)
(*                                                                         *)
(* Text is a sequence of one-character strings.  The workflow state is a   *)
(* function from channel names to values, as the graph keeps it: a node    *)
(* returns a dictionary of updates and the graph writes the keys that are  *)
(* channels of the state schema.                                           *)
(***************************************************************************)
EXTENDS Integers, Sequences, FiniteSets, TLC

VARIABLES
    request,    \* the request being served: its route and its parameters
    node,       \* the node the graph executes next, or "START", "END", "RAISED"
    state,      \* the channels of StoryGenerationState
    calls,      \* how often each collaborator was called and finalize_story ran
    last_evaluation, \* what the judge's last call returned, None before the first
    response,   \* what the route answered, None while the request is served
    stories,    \* the persistence collaborator: the saved story records
    invocation, \* a call of an agent's _invoke_with_fallback, None when there is none
    parsing,    \* a model reply under one of the agents' parsers, None when there is none
    routing,    \* a call of ConversationalAgent.process_message, None when there is none
    serving,    \* the requests a chat server handles at once, None when there is none
    storage,    \* the JSON story file and its last listing, None when there is none
    deciding,   \* a decision of story_evaluator on a given state, None when there is none
    sharing,    \* invocations running at once on one agent object, None when there are none
    chatting    \* the sessions of one conversational agent and its calls, None when there are none

vars == <<request, node, state, calls, last_evaluation, response, stories>>

\* what a step of the workflow leaves alone
others == <<invocation, parsing, routing, serving, storage, deciding, sharing, chatting>>

all_vars == <<vars, others>>

(***************************************************************************)
(* Bounds of the model.                                                    *)
(***************************************************************************)
MaxIterations == 2      \* a request's max_iterations ranges over 0..MaxIterations
MaxParagraphs == 3      \* the storyteller's replies hold up to this many blocks

\* settings.story.MAX_ITERATIONS
MAX_ITERATIONS == 3

CallCap == MAX_ITERATIONS + 1   \* call counters saturate here ("or more")

None == <<>>          \* Python's None
EmptyDict == <<>>     \* Python's {}

Min(a, b) == IF a <= b THEN a ELSE b

SetMax(S) == CHOOSE x \in S : \A y \in S : y <= x

(***************************************************************************)
(* Text processing (utils/text_processing.py, config/constants.py).        *)
(***************************************************************************)
NL == "\n"
SP == " "

\* what the regular expression class \s matches, within the model's alphabet
IsSpace(c) == c \in {SP, NL}

RECURSIVE LStrip(_)
LStrip(s) ==
    IF s # <<>> /\ IsSpace(Head(s)) THEN LStrip(Tail(s)) ELSE s

RECURSIVE RStrip(_)
RStrip(s) ==
    IF s # <<>> /\ IsSpace(s[Len(s)]) THEN RStrip(SubSeq(s, 1, Len(s) - 1)) ELSE s

\* str.strip()
Strip(s) == RStrip(LStrip(s))

\* PARAGRAPH_SPLIT = r'\n\s*\n': the end of the match that starts at p, 0 when
\* none starts there.  \s* is greedy, so the match runs to the last newline
\* that only whitespace separates from p.
ParagraphSplitEnd(s, p) ==
    IF s[p] # NL THEN 0
    ELSE LET ends == { q \in (p + 1)..Len(s) :
                         /\ s[q] = NL
                         /\ \A j \in (p + 1)..(q - 1) : IsSpace(s[j]) }
         IN  IF ends = {} THEN 0 ELSE SetMax(ends)

\* re.split(PARAGRAPH_SPLIT, s), scanning from position i: the leftmost match
\* ends a piece, and the scan goes on behind it.
RECURSIVE SplitFrom(_, _)
SplitFrom(s, i) ==
    LET starts == { p \in i..Len(s) : ParagraphSplitEnd(s, p) # 0 }
    IN  IF starts = {} THEN << SubSeq(s, i, Len(s)) >>
        ELSE LET p == CHOOSE x \in starts : \A y \in starts : x <= y
             IN  << SubSeq(s, i, p - 1) >> \o SplitFrom(s, ParagraphSplitEnd(s, p) + 1)

ReSplit(s) == SplitFrom(s, 1)

NonEmptyParagraph(p) == Strip(p) # <<>>

count_paragraphs(text) ==
    IF text = <<>> THEN 0
    ELSE Len(SelectSeq(ReSplit(Strip(text)), NonEmptyParagraph))

(***************************************************************************)
(* Settings (config/settings.py, StoryConfig).                             *)
(***************************************************************************)
LengthTypes == {"short", "medium", "long"}

PARAGRAPH_STRUCTURE(length_type) == IF length_type = "short" THEN 2 ELSE 3

(***************************************************************************)
(* The state schema and the graph's channel writes.                        *)
(***************************************************************************)
\* the keys StoryGenerationState declares: the channels of the graph
StateKeys ==
    { "prompt", "length_type", "session_id", "story_title", "story_content",
      "iteration", "max_iterations", "evaluation_feedback", "quality_scores",
      "overall_score", "approved", "target_paragraphs", "actual_paragraphs",
      "structure_correct", "revision_history", "final_story", "next_step" }

\* state.get(key, default)
Get(st, key, default) == IF key \in DOMAIN st THEN st[key] ELSE default

\* StateGraph(StoryGenerationState): of a node's returned dictionary the
\* graph writes the keys that are channels and drops the others;
\* revision_history is Annotated with operator.add, every other channel keeps
\* the last value written.
ApplyUpdates(st, updates) ==
    LET written == DOMAIN updates \cap StateKeys
    IN  [ k \in DOMAIN st \cup written |->
            IF k \notin written THEN st[k]
            ELSE IF k = "revision_history" /\ k \in DOMAIN st
                 THEN st[k] \o updates[k]
                 ELSE updates[k] ]

(***************************************************************************)
(* The collaborators' answers.  A call of the storyteller or of the judge  *)
(* returns a parsed reply or raises (its model fallback gave up).          *)
(***************************************************************************)
Paragraph == <<"a">>

RECURSIVE Blocks(_, _)
Blocks(k, sep) ==
    IF k = 1 THEN Paragraph ELSE Blocks(k - 1, sep) \o sep \o Paragraph

BlankLine == <<NL, NL>>

\* one to MaxParagraphs blocks with a blank line between them, and two blocks
\* with a mere line break or with a line of spaces between them
Contents ==
    { Blocks(k, BlankLine) : k \in 1..MaxParagraphs }
        \cup { Blocks(2, <<NL>>), Blocks(2, <<NL, SP, NL>>) }

DefaultTitle == "A Bedtime Story"

\* what _parse_story_response returns: a title and a content
StorytellerReplies ==
    { [ title |-> IF c \in { Blocks(k, BlankLine) : k \in 1..MaxParagraphs }
                  THEN "The Shy Rabbit" ELSE DefaultTitle,
        content |-> c ] : c \in Contents }

DefaultFeedback == "Story evaluated."

Scores(clarity, moral, age, overall) ==
    [ clarity |-> clarity, moralValue |-> moral,
      ageAppropriateness |-> age, score |-> overall ]

\* the scores of a reply: every one at its threshold, exactly one of them
\* below its threshold, or the parser's defaults
ScoreSets ==
    { Scores(8, 8, 8, 9), Scores(7, 8, 8, 9), Scores(8, 7, 8, 9),
      Scores(8, 8, 7, 9), Scores(8, 8, 8, 8), Scores(7, 7, 7, 7) }

\* what _parse_evaluation returns: the scores, the judge's own YES or NO
\* (either, for the scores at and just below the overall threshold), and its
\* feedback
JudgeReplies ==
    UNION { { sc @@ [ approved |-> yes,
                      feedback |-> IF sc = Scores(7, 7, 7, 7) THEN DefaultFeedback
                                   ELSE "Make the moral clearer." ] :
                yes \in IF sc.clarity + sc.moralValue + sc.ageAppropriateness = 24
                        THEN BOOLEAN ELSE {FALSE} } :
            sc \in ScoreSets }

(***************************************************************************)
(* The requests.                                                           *)
(***************************************************************************)
Prompt == "a shy rabbit learns to make friends"

\* /api/generate-story passes no max_iterations (None, <<>>);
\* /api/story passes the request's, an integer no validation restricts (n
\* is <<n>>)
Requests ==
    [ caller : {"generate_story"}, length_type : LengthTypes,
      max_iterations : {None} ]
    \cup
    [ caller : {"story_endpoint"}, length_type : LengthTypes,
      max_iterations : { <<n>> : n \in 0..MaxIterations } ]

(***************************************************************************)
(* run_story_generation: the initial state handed to graph.invoke.         *)
(***************************************************************************)
initial_state(req) ==
    LET max_iterations ==
            IF req.max_iterations = None THEN MAX_ITERATIONS
            ELSE req.max_iterations[1]
    IN  [ prompt |-> Prompt,
          length_type |-> req.length_type,
          session_id |-> "default",
          story_title |-> "",
          story_content |-> <<>>,
          iteration |-> 1,
          max_iterations |-> max_iterations,
          evaluation_feedback |-> "",
          quality_scores |-> EmptyDict,
          overall_score |-> 0,
          approved |-> FALSE,
          target_paragraphs |-> PARAGRAPH_STRUCTURE(req.length_type),
          actual_paragraphs |-> 0,
          structure_correct |-> FALSE,
          revision_history |-> <<>>,
          final_story |-> None,
          next_step |-> "evaluate" ]

(***************************************************************************)
(* The nodes: each maps the state it reads to the updates it returns.      *)
(***************************************************************************)
PreviewLength == 150

\* result["content"][:150] + "..."
content_preview(content) ==
    SubSeq(content, 1, Min(PreviewLength, Len(content))) \o <<".", ".", ".">>

\* one key of a dictionary, set only when the condition holds
When(cond, key, value) == IF cond THEN key :> value ELSE <<>>

\* StoryCreatorNode.__call__, after the storyteller returned result
StoryCreatorUpdates(st, result) ==
    LET iteration == Get(st, "iteration", 1)
        actual_paras == count_paragraphs(result.content)
        target_paras == PARAGRAPH_STRUCTURE(st["length_type"])
        revision_entry ==
            [ iteration |-> iteration,
              title |-> result.title,
              content_preview |-> content_preview(result.content),
              paragraph_count |-> actual_paras ]
    IN  [ story_title |-> result.title,
          story_content |-> result.content,
          actual_paragraphs |-> actual_paras,
          target_paragraphs |-> target_paras,
          structure_correct |-> (actual_paras = target_paras),
          revision_history |-> << revision_entry >>,
          next_step |-> "evaluate" ]
        @@ When("session_id" \notin DOMAIN st, "session_id", "demo-session")
        @@ When("iteration" \notin DOMAIN st, "iteration", 1)
        @@ When("max_iterations" \notin DOMAIN st, "max_iterations", MAX_ITERATIONS)
        @@ When("quality_scores" \notin DOMAIN st
                    \/ Get(st, "quality_scores", EmptyDict) = EmptyDict,
                "quality_scores", EmptyDict)
        @@ When("overall_score" \notin DOMAIN st, "overall_score", 0)
        @@ When("approved" \notin DOMAIN st, "approved", FALSE)
        @@ When("evaluation_feedback" \notin DOMAIN st, "evaluation_feedback", "")
        @@ When("final_story" \notin DOMAIN st, "final_story", None)
        @@ When("format_attempts" \notin DOMAIN st, "format_attempts", 0)

\* Approval, were it to take the judge's own YES or NO
Approval_TrustsJudge(evaluation) == evaluation.approved

\* the approval StoryEvaluatorNode computes from the judge's scores
Approval(evaluation) ==
    /\ evaluation.score >= 9
    /\ evaluation.clarity >= 8
    /\ evaluation.moralValue >= 8
    /\ evaluation.ageAppropriateness >= 8

\* DecideNextStep, were the budget test iteration > max_iterations
DecideNextStep_OffByOne(st, approved) ==
    IF approved /\ st["structure_correct"] THEN "finalize"
    ELSE IF ~ st["structure_correct"]
         THEN IF Get(st, "format_attempts", 0) >= 2
              THEN "finalize"
              ELSE "format_paragraphs"
    ELSE IF st["iteration"] > st["max_iterations"] THEN "finalize"
    ELSE "refine"

\* DecideNextStep, were an approved draft finalized whatever its structure
DecideNextStep_ApprovedOnly(st, approved) ==
    IF approved THEN "finalize"
    ELSE IF ~ st["structure_correct"]
         THEN IF Get(st, "format_attempts", 0) >= 2
              THEN "finalize"
              ELSE "format_paragraphs"
    ELSE IF st["iteration"] >= st["max_iterations"] THEN "finalize"
    ELSE "refine"

\* DecideNextStep, were the budget tested before the approval
DecideNextStep_BudgetFirst(st, approved) ==
    IF ~ st["structure_correct"]
    THEN IF Get(st, "format_attempts", 0) >= 2
         THEN "finalize"
         ELSE "format_paragraphs"
    ELSE IF st["iteration"] >= st["max_iterations"] THEN "finalize"
    ELSE "refine"

\* DecideNextStep, were the reformatting never given up
DecideNextStep_FormatsForever(st, approved) ==
    IF approved /\ st["structure_correct"] THEN "finalize"
    ELSE IF ~ st["structure_correct"] THEN "format_paragraphs"
    ELSE IF st["iteration"] >= st["max_iterations"] THEN "finalize"
    ELSE "refine"

\* StoryEvaluatorNode.__call__: "Decide next step"
DecideNextStep(st, approved) ==
    IF approved /\ st["structure_correct"] THEN "finalize"
    ELSE IF ~ st["structure_correct"]
         THEN IF Get(st, "format_attempts", 0) >= 2
              THEN "finalize"
              ELSE "format_paragraphs"
    ELSE IF st["iteration"] >= st["max_iterations"] THEN "finalize"
    ELSE "refine"

\* StoryEvaluatorNode.__call__, after the judge returned evaluation
StoryEvaluatorUpdates(st, evaluation) ==
    LET approved == Approval(evaluation)
    IN  [ quality_scores |->
              [ clarity |-> evaluation.clarity,
                moral_value |-> evaluation.moralValue,
                age_appropriateness |-> evaluation.ageAppropriateness ],
          overall_score |-> evaluation.score,
          evaluation_feedback |-> evaluation.feedback,
          approved |-> approved,
          next_step |-> DecideNextStep(st, approved) ]

\* ParagraphFormatterUpdates, were the paragraphs not counted again
ParagraphFormatterUpdates_StaleCount(st, result) ==
    [ story_title |-> result.title,
      story_content |-> result.content,
      structure_correct |-> (count_paragraphs(result.content) = st["target_paragraphs"]),
      format_attempts |-> Get(st, "format_attempts", 0) + 1,
      next_step |-> "evaluate" ]

\* ParagraphFormatterNode.__call__, after the storyteller returned result
ParagraphFormatterUpdates(st, result) ==
    LET target == st["target_paragraphs"]
        actual_paras == count_paragraphs(result.content)
    IN  [ story_title |-> result.title,
          story_content |-> result.content,
          actual_paragraphs |-> actual_paras,
          structure_correct |-> (actual_paras = target),
          format_attempts |-> Get(st, "format_attempts", 0) + 1,
          next_step |-> "evaluate" ]

\* IncrementIterationUpdates, were the last feedback cleared with the step
IncrementIterationUpdates_ClearsFeedback(st) ==
    [ iteration |-> Get(st, "iteration", 1) + 1,
      evaluation_feedback |-> "",
      next_step |-> "refine" ]

\* IncrementIterationUpdates, were the counter advanced by two
IncrementIterationUpdates_SkipsOne(st) ==
    [ iteration |-> Get(st, "iteration", 1) + 2,
      next_step |-> "refine" ]

\* IncrementIterationNode.__call__
IncrementIterationUpdates(st) ==
    [ iteration |-> Get(st, "iteration", 1) + 1,
      next_step |-> "refine" ]

\* FinalStory, were the budget reported as the iterations
FinalStory_BudgetAsIterations(st) ==
    [ title |-> Get(st, "story_title", ""),
      content |-> Get(st, "story_content", <<>>),
      prompt |-> st["prompt"],
      length_type |-> st["length_type"],
      iterations |-> Get(st, "max_iterations", 1),
      final_scores |-> Get(st, "quality_scores", EmptyDict),
      overall_score |-> Get(st, "overall_score", 0),
      paragraph_count |-> Get(st, "actual_paragraphs", 0),
      revision_history |-> Get(st, "revision_history", <<>>) ]

\* the package FinalizeStoryNode builds
FinalStory(st) ==
    [ title |-> Get(st, "story_title", ""),
      content |-> Get(st, "story_content", <<>>),
      prompt |-> st["prompt"],
      length_type |-> st["length_type"],
      iterations |-> Get(st, "iteration", 1),
      final_scores |-> Get(st, "quality_scores", EmptyDict),
      overall_score |-> Get(st, "overall_score", 0),
      paragraph_count |-> Get(st, "actual_paragraphs", 0),
      revision_history |-> Get(st, "revision_history", <<>>) ]

\* FinalizeStoryNode.__call__
FinalizeStoryUpdates(st) ==
    [ final_story |-> FinalStory(st),
      next_step |-> "end" ]

\* route_after_evaluation and the conditional edges of story_evaluator
route_after_evaluation(st) == Get(st, "next_step", "finalize")

ConditionalEdge(step) ==
    CASE step = "format_paragraphs" -> "paragraph_formatter"
      [] step = "refine" -> "increment_iteration"
      [] step = "finalize" -> "finalize_story"

(***************************************************************************)
(* The routes around the run: _generate_story_internal / generate_story    *)
(* (api/routes/stories.py) and story_endpoint (langgraph_server.py).       *)
(***************************************************************************)
OK == 200
INTERNAL_SERVER_ERROR == 500

ERROR_STORY_GENERATION == "Failed to generate story"

\* the record _generate_story_internal hands to db.save_story
story_data(req, final_story) ==
    [ title |-> final_story.title,
      content |-> final_story.content,
      prompt |-> Prompt,
      length_type |-> req.length_type,
      iterations |-> final_story.iterations,
      final_score |->
          [ clarity |-> final_story.final_scores.clarity,
            moralValue |-> final_story.final_scores.moral_value,
            ageAppropriateness |-> final_story.final_scores.age_appropriateness,
            score |-> final_story.overall_score,
            approved |-> TRUE ],
      session_id |-> None ]

\* the fields StoryResponse keeps of the final story
StoryResponse(final_story) ==
    [ title |-> final_story.title,
      content |-> final_story.content,
      prompt |-> final_story.prompt,
      length_type |-> final_story.length_type,
      iterations |-> final_story.iterations,
      final_scores |-> final_story.final_scores,
      overall_score |-> final_story.overall_score,
      paragraph_count |-> final_story.paragraph_count ]

\* graph.invoke returned: run_story_generation hands back final_story
RunReturns ==
    /\ node = "END"
    /\ response = None
    /\ LET final_story == Get(state, "final_story", EmptyDict)
       IN  IF request.caller = "generate_story"
           THEN IF final_story = EmptyDict
                THEN /\ response' =
                            [ status |-> INTERNAL_SERVER_ERROR,
                              detail |-> "Story generation failed to produce a valid result" ]
                     /\ stories' = stories
                ELSE /\ stories' = Append(stories, story_data(request, final_story))
                     /\ response' =
                            [ status |-> OK,
                              story |-> story_data(request, final_story) ]
           ELSE /\ response' = [ status |-> OK, story |-> StoryResponse(final_story) ]
                /\ stories' = stories
    /\ UNCHANGED <<request, node, state, calls, last_evaluation, others>>

\* RunRaises, were the error swallowed and the draft so far saved and returned
RunRaises_SavesDraft ==
    /\ node' = "RAISED"
    /\ stories' = Append(stories, [ title |-> state["story_title"],
                                     content |-> state["story_content"] ])
    /\ response' = [ status |-> OK, story |-> Get(state, "final_story", None) ]
    /\ UNCHANGED <<request, state, last_evaluation, others>>

\* a node raised: graph.invoke and run_story_generation raise with it, and the
\* route's except clause answers with an error; nothing is saved
RunRaises ==
    /\ node' = "RAISED"
    /\ response' =
          [ status |-> INTERNAL_SERVER_ERROR,
            detail |-> IF request.caller = "generate_story"
                       THEN ERROR_STORY_GENERATION
                       ELSE "Story generation error" ]
    /\ UNCHANGED <<request, state, last_evaluation, stories, others>>

(***************************************************************************)
(* The graph of create_story_generation_graph, run by graph.invoke.        *)
(***************************************************************************)
Count(c, what) == [c EXCEPT ![what] = Min(@ + 1, CallCap)]

\* the node that ran last called the storyteller with this, or called it not
Made(c, call) == [c EXCEPT !.generator = call]

\* the judge was given this draft, and no node has called the storyteller since
Judged(c, draft) == [c EXCEPT !.judge = draft]

NoCalls ==
    [ create_story |-> 0, refine_story |-> 0, reformat |-> 0,
      evaluate_story |-> 0, finalize_story |-> 0,
      generator |-> None,   \* the storyteller call of the node that ran last
      judge |-> None ]      \* the draft of the last judge call, until the next
                            \* storyteller call

Init ==
    /\ request \in Requests
    /\ node = "story_creator"
    /\ state = ApplyUpdates(<<>>, initial_state(request))
    /\ calls = NoCalls
    /\ last_evaluation = None
    /\ response = None
    /\ stories = <<>>
    /\ invocation = None
    /\ parsing = None
    /\ routing = None
    /\ serving = None
    /\ storage = None
    /\ deciding = None
    /\ sharing = None
    /\ chatting = None

\* story_creator: create_story at iteration 1, refine_story afterwards
CreatorCall(st) ==
    IF Get(st, "iteration", 1) > 1 THEN "refine_story" ELSE "create_story"

\* CreatorArguments, were the refinement given the parser's default feedback
CreatorArguments_DefaultFeedback(st) ==
    IF Get(st, "iteration", 1) > 1
    THEN [ title |-> st["story_title"],
           content |-> st["story_content"],
           feedback |-> DefaultFeedback,
           length_type |-> st["length_type"] ]
    ELSE [ prompt |-> st["prompt"],
           length_type |-> st["length_type"],
           previous_stories |-> <<>> ]

\* the arguments of story_creator's call (target_word_count, a function of
\* length_type, left out)
CreatorArguments(st) ==
    IF Get(st, "iteration", 1) > 1
    THEN [ title |-> st["story_title"],
           content |-> st["story_content"],
           feedback |-> st["evaluation_feedback"],
           length_type |-> st["length_type"] ]
    ELSE [ prompt |-> st["prompt"],
           length_type |-> st["length_type"],
           previous_stories |-> <<>> ]

\* paragraph_formatter's feedback (its first line; the lines after it name the
\* paragraphs and ask to keep the content): the structure and nothing else
StructureFeedback(target) ==
    IF target = 2
    THEN "Please reformat the story into EXACTLY 2 paragraphs separated by a blank line."
    ELSE "Please reformat the story into EXACTLY 3 paragraphs separated by blank lines."

\* the arguments of paragraph_formatter's call of refine_story (the draft's
\* title and content, passed as they stand in the state, left out)
FormatterArguments(st) ==
    [ feedback |-> StructureFeedback(st["target_paragraphs"]),
      length_type |-> st["length_type"] ]

GeneratorCall(by, method, arguments) ==
    << [ by |-> by, method |-> method, arguments |-> arguments ] >>

\* the arguments of story_evaluator's call of evaluate_story
JudgeArguments(st) ==
    << [ title |-> st["story_title"], content |-> st["story_content"] ] >>

EvaluatorCalled(c, st) ==
    Judged(Made(Count(c, "evaluate_story"), None), JudgeArguments(st))

CreatorCalled(c, st) ==
    Judged(Made(Count(c, CreatorCall(st)),
                GeneratorCall("story_creator", CreatorCall(st), CreatorArguments(st))),
           None)

FormatterCalled(c, st) ==
    Judged(Made(Count(c, "reformat"),
                GeneratorCall("paragraph_formatter", "refine_story", FormatterArguments(st))),
           None)

StoryCreatorReturns ==
    /\ node = "story_creator"
    /\ \E result \in StorytellerReplies :
           state' = ApplyUpdates(state, StoryCreatorUpdates(state, result))
    /\ calls' = CreatorCalled(calls, state)
    /\ node' = "story_evaluator"
    /\ UNCHANGED <<request, last_evaluation, response, stories, others>>

StoryCreatorRaises ==
    /\ node = "story_creator"
    /\ calls' = CreatorCalled(calls, state)
    /\ RunRaises

StoryEvaluatorReturns ==
    /\ node = "story_evaluator"
    /\ last_evaluation' \in JudgeReplies
    /\ state' = ApplyUpdates(state, StoryEvaluatorUpdates(state, last_evaluation'))
    /\ calls' = EvaluatorCalled(calls, state)
    /\ node' = ConditionalEdge(route_after_evaluation(state'))
    /\ UNCHANGED <<request, response, stories, others>>

StoryEvaluatorRaises ==
    /\ node = "story_evaluator"
    /\ calls' = EvaluatorCalled(calls, state)
    /\ RunRaises

\* ParagraphFormatterReturns, were the reformatted draft finalized as it is
ParagraphFormatterReturns_ThenFinalizes ==
    /\ node = "paragraph_formatter"
    /\ IF state["structure_correct"]
       THEN /\ state' = ApplyUpdates(state, [next_step |-> "evaluate"])
            /\ calls' = Made(calls, None)
       ELSE /\ \E result \in StorytellerReplies :
                   state' = ApplyUpdates(state, ParagraphFormatterUpdates(state, result))
            /\ calls' = FormatterCalled(calls, state)
    /\ node' = "finalize_story"
    /\ UNCHANGED <<request, last_evaluation, response, stories, others>>

ParagraphFormatterReturns ==
    /\ node = "paragraph_formatter"
    /\ IF state["structure_correct"]
       THEN /\ state' = ApplyUpdates(state, [next_step |-> "evaluate"])
            /\ calls' = Made(calls, None)
       ELSE /\ \E result \in StorytellerReplies :
                   state' = ApplyUpdates(state, ParagraphFormatterUpdates(state, result))
            /\ calls' = FormatterCalled(calls, state)
    /\ node' = "story_evaluator"
    /\ UNCHANGED <<request, last_evaluation, response, stories, others>>

ParagraphFormatterRaises ==
    /\ node = "paragraph_formatter"
    /\ ~ state["structure_correct"]
    /\ calls' = FormatterCalled(calls, state)
    /\ RunRaises

IncrementIteration ==
    /\ node = "increment_iteration"
    /\ state' = ApplyUpdates(state, IncrementIterationUpdates(state))
    /\ calls' = Made(calls, None)
    /\ node' = "story_creator"
    /\ UNCHANGED <<request, last_evaluation, response, stories, others>>

FinalizeStory ==
    /\ node = "finalize_story"
    /\ state' = ApplyUpdates(state, FinalizeStoryUpdates(state))
    /\ calls' = Made(Count(calls, "finalize_story"), None)
    /\ node' = "END"
    /\ UNCHANGED <<request, last_evaluation, response, stories, others>>

Next ==
    \/ StoryCreatorReturns
    \/ StoryCreatorRaises
    \/ StoryEvaluatorReturns
    \/ StoryEvaluatorRaises
    \/ ParagraphFormatterReturns
    \/ ParagraphFormatterRaises
    \/ IncrementIteration
    \/ FinalizeStory
    \/ RunReturns

Spec == Init /\ [][Next]_vars

\* The runs for short stories.  graph.invoke runs the next node until the
\* graph ends or a node raises, and the route then answers: no run stops
\* while a step is left to take.
ShortInit == Init /\ request.length_type = "short"

FairSpec == ShortInit /\ [][Next]_vars /\ WF_vars(Next)

(***************************************************************************)
(* Properties of the workflow.                                             *)
(***************************************************************************)
Max(a, b) == IF a >= b THEN a ELSE b

Finalized == node = "END"

GeneratorCalls == calls.create_story + calls.refine_story

\* C1 (as stated): for any max_iterations = N the run finalizes at or before
\* iteration N: FinalStory.iterations <= N.
C1_FinalIterationsWithinBudget ==
    Finalized => state["final_story"].iterations <= state["max_iterations"]

\* C1 (amended): FinalStory.iterations <= N for every N >= 1, approved or not;
\* a run given N < 1 finalizes at iteration 1.
C1_FinalIterationsWithinBudgetFromOne ==
    Finalized =>
        state["final_story"].iterations <= Max(state["max_iterations"], 1)

\* a run finalized at its budget without its last draft being approved
C1_Witness ==
    /\ Finalized
    /\ state["max_iterations"] >= 2
    /\ state["final_story"].iterations = state["max_iterations"]
    /\ ~ state["approved"]

\* C2: every run whose storyteller and judge calls all return eventually
\* executes finalize_story and stops (a run in which a call raises ends
\* RAISED).
C2_RunFinalizes == <>(node \in {"END", "RAISED"})

C4_ApprovalIsTheThreshold ==
    IF last_evaluation = None
    THEN ~ state["approved"]
    ELSE state["approved"] <=>
            /\ last_evaluation.score >= 9
            /\ last_evaluation.clarity >= 8
            /\ last_evaluation.moralValue >= 8
            /\ last_evaluation.ageAppropriateness >= 8

\* the judge answered NO to scores that meet the thresholds
C4_Witness ==
    /\ last_evaluation # None
    /\ ~ last_evaluation.approved
    /\ state["approved"]

\* C5: when the first draft and both reformat results miss the required
\* paragraph count, the third evaluation sends the run to finalize_story: the
\* formatter has run exactly twice, at iteration 1 and without a refine step.
C5_FinalizesAfterTwoReformats ==
    ( /\ calls.create_story = 1
      /\ calls.refine_story = 0
      /\ calls.reformat = 2
      /\ calls.evaluate_story = 3
      /\ ~ state["structure_correct"]
      /\ node # "RAISED" )
    => node \in {"finalize_story", "END"}

\* C6: when every draft has the required paragraph count (no reformat call)
\* and the scores first meet the threshold at iteration k, the run goes to
\* finalize_story at iteration k after exactly k storyteller calls and k
\* judge calls, and the final story reports iterations = k.
C6_ApprovedDraftFinalizesAtItsIteration ==
    ( state["approved"] /\ state["structure_correct"] /\ calls.reformat = 0 )
    => /\ node \in {"finalize_story", "END"}
       /\ GeneratorCalls = state["iteration"]
       /\ calls.evaluate_story = state["iteration"]
       /\ calls.create_story = 1
       /\ Finalized => state["final_story"].iterations = state["iteration"]

\* the third draft is the first approved one, under a budget of three
C6_Witness ==
    /\ Finalized
    /\ state["approved"]
    /\ calls.reformat = 0
    /\ state["max_iterations"] = 3
    /\ state["final_story"].iterations = 3
    /\ calls.evaluate_story = 3
    /\ calls.refine_story = 2

\* C7 (as stated): iteration <= max_iterations in every reachable state.
C7_IterationWithinBudget == state["iteration"] <= state["max_iterations"]

\* C7 (amended): iteration starts at 1, never decreases, changes only by +1
\* and only in increment_iteration, and stays <= max_iterations whenever
\* max_iterations >= 1 (a run given max_iterations < 1 stays at iteration 1).
C7_IterationCountsUpWithinBudget ==
    /\ state["iteration"] = 1
    /\ [](state["iteration"] <= Max(state["max_iterations"], 1))
    /\ [][ \/ state'["iteration"] = state["iteration"]
           \/ /\ state'["iteration"] = state["iteration"] + 1
              /\ node = "increment_iteration" ]_vars

\* a refinement at the last iteration of the budget
C7_Witness ==
    /\ node = "story_creator"
    /\ state["iteration"] = 3
    /\ state["max_iterations"] = 3

\* C8: structure_correct is (actual_paragraphs = target_paragraphs),
\* actual_paragraphs is the paragraph count of the current content and
\* target_paragraphs the count the length type requires; FinalStory reports
\* the paragraph count of its own content.
C8_StructureFollowsContent ==
    /\ state["actual_paragraphs"] = count_paragraphs(state["story_content"])
    /\ state["structure_correct"] <=>
           (state["actual_paragraphs"] = state["target_paragraphs"])
    /\ state["target_paragraphs"] =
           (IF state["length_type"] = "short" THEN 2 ELSE 3)
    /\ Finalized =>
           state["final_story"].paragraph_count =
               count_paragraphs(state["final_story"].content)

\* a reformatted draft of the wrong paragraph count reaches story_evaluator
C8_Witness ==
    /\ node = "story_evaluator"
    /\ calls.reformat >= 1
    /\ calls.refine_story >= 1
    /\ state["actual_paragraphs"] = 1
    /\ ~ state["structure_correct"]

\* C9: when a storyteller or judge call raises, the run ends without
\* finalize_story having run and without a final story, nothing is saved, and
\* the route answers with an error (/generate-story: the generation failure).
C9_RaiseEndsWithoutStory ==
    node = "RAISED" =>
        /\ calls.finalize_story = 0
        /\ state["final_story"] = None
        /\ stories = <<>>
        /\ response # None
        /\ response.status = INTERNAL_SERVER_ERROR
        /\ request.caller = "generate_story" =>
               response.detail = "Failed to generate story"

\* the storyteller raised in a refinement of a /generate-story run
C9_Witness ==
    /\ node = "RAISED"
    /\ request.caller = "generate_story"
    /\ calls.refine_story >= 1
    /\ calls.evaluate_story = 1

\* C10: final_story is None until finalize_story runs; finalize_story runs at
\* most once and is the only node to set it, from the title, content,
\* iteration, scores and paragraph count of the state it runs on; nothing of
\* the state changes afterwards.
C10_FinalStorySetOnceByFinalize ==
    /\ [](calls.finalize_story = 0 => state["final_story"] = None)
    /\ [](calls.finalize_story <= 1)
    /\ [](Finalized =>
            /\ state["final_story"] # None
            /\ state["final_story"].title = state["story_title"]
            /\ state["final_story"].content = state["story_content"]
            /\ state["final_story"].iterations = state["iteration"]
            /\ state["final_story"].final_scores = state["quality_scores"]
            /\ state["final_story"].overall_score = state["overall_score"]
            /\ state["final_story"].paragraph_count = state["actual_paragraphs"])
    /\ [][ /\ state'["final_story"] # state["final_story"] => node = "finalize_story"
           /\ Finalized => (state' = state /\ node' = node) ]_vars

\* a run finalized after a refinement
C10_Witness ==
    /\ Finalized
    /\ state["final_story"] # None
    /\ state["final_story"].iterations = 2
    /\ state["max_iterations"] = 3

\* C11: finalize_story leaves the entry of the finalized draft last in
\* revision_history: the last entry of FinalStory.revision_history has the
\* title and the paragraph count of FinalStory, also when the draft was last
\* changed by paragraph_formatter.
C11_LastRevisionIsFinalDraft ==
    Finalized =>
        LET history == state["final_story"].revision_history
        IN  /\ history # <<>>
            /\ history[Len(history)].title = state["final_story"].title
            /\ history[Len(history)].paragraph_count =
                   state["final_story"].paragraph_count

(***************************************************************************)
(* The model invoker: _invoke_with_fallback of StorytellerAgent and        *)
(* JudgeAgent (agents.py) and of ConversationalAgent                       *)
(* (conversational_agent.py).  An error message is a sequence of pieces    *)
(* of text; the keywords the code looks for are sequences of pieces too.   *)
(***************************************************************************)
MaxEnvModels == 2       \* the entries of a GROQ_MODEL... value: 1..MaxEnvModels

Roles == {"storyteller", "judge", "conversational"}

DEFAULT_MODELS ==
    << "llama-3.3-70b-versatile", "llama-3.1-8b-instant", "mixtral-8x7b-32768" >>

\* the pieces env_list.split(",") gives: an empty one, a name, a padded name
EnvEntries == {"", "modelA", " modelB "}

EnvLists == UNION { [1..n -> EnvEntries] : n \in 1..MaxEnvModels }

\* m.strip() of an entry
StripEntry(m) == IF m = " modelB " THEN "modelB" ELSE m

IsModelName(m) == m # ""

\* load_model_candidates, were there no default models
load_model_candidates_NoDefault(env_list) ==
    SelectSeq([i \in 1..Len(env_list) |-> StripEntry(env_list[i])], IsModelName)

\* [m.strip() for m in env_list.split(",") if m.strip()] or the defaults
load_model_candidates(env_list) ==
    LET models == SelectSeq([i \in 1..Len(env_list) |-> StripEntry(env_list[i])],
                            IsModelName)
    IN  IF models # <<>> THEN models ELSE DEFAULT_MODELS

\* the messages str(e) of a failed attempt
RateLimitReached == <<"Rate", " ", "limit", " ", "reached">>
TooManyRequests == <<"Error", " ", "code", ":", " ", "429">>
QuotaExceeded == <<"Quota", " ", "exceeded">>
ModelDecommissioned == <<"model", " ", "decommission", "ed">>
ModelDeprecated == <<"model", " ", "deprecated">>
InvalidApiKey == <<"Invalid", " ", "API", " ", "key">>
TokenLimit == <<"Request", " ", "over", " ", "token", "s", " ", "limit">>
TokenExpired == <<"token", " ", "expired">>
ConnectionError == <<"Connection", " ", "error">>

ErrorMessages ==
    { RateLimitReached, TooManyRequests, QuotaExceeded, ModelDecommissioned,
      ModelDeprecated, InvalidApiKey, TokenLimit, TokenExpired, ConnectionError }

\* str.lower() of a piece
LowerPiece(piece) ==
    CASE piece = "Rate" -> "rate"
      [] piece = "Error" -> "error"
      [] piece = "Quota" -> "quota"
      [] piece = "Invalid" -> "invalid"
      [] piece = "API" -> "api"
      [] piece = "Request" -> "request"
      [] piece = "Connection" -> "connection"
      [] piece = "Yes" -> "yes"
      [] piece = "YES" -> "yes"
      [] piece = "No" -> "no"
      [] piece = "Tell" -> "tell"
      [] piece = "Who" -> "who"
      [] piece = "I" -> "i"
      [] piece = "Hello" -> "hello"
      [] OTHER -> piece

lower(text) == [i \in 1..Len(text) |-> LowerPiece(text[i])]

\* keyword in msg
In(keyword, msg) ==
    \E i \in 1..(Len(msg) - Len(keyword) + 1) :
        SubSeq(msg, i, i + Len(keyword) - 1) = keyword

\* the condition of "continue" in StorytellerAgent and JudgeAgent
AgentRetryable(message) ==
    LET msg == lower(message)
    IN  \/ In(<<"rate", " ", "limit">>, msg)
        \/ In(<<"429">>, msg)
        \/ In(<<"limit">>, msg) /\ In(<<"token">>, msg)
        \/ In(<<"decommission">>, msg)
        \/ In(<<"invalid">>, msg)

\* is_retryable of ConversationalAgent
is_retryable(message) ==
    LET error_msg == lower(message)
    IN  \E keyword \in { <<"rate", " ", "limit">>, <<"429">>, <<"decommission">>,
                         <<"invalid">>, <<"token">> } :
            In(keyword, error_msg)

\* how a role classifies the message of a failed attempt
Retryable(role, message) ==
    IF role = "conversational" THEN is_retryable(message)
                               ELSE AgentRetryable(message)

\* what the model answers when an attempt succeeds
Reply(model) == [ model |-> model, content |-> "reply" ]

\* the exception an attempt on a model raises
AttemptError(model, message) ==
    [ type |-> "Exception", model |-> model, message |-> message ]

\* last_err = e, were the first error kept
LastError_KeepsFirst(last_err, e) == IF last_err = None THEN e ELSE last_err

\* last_err = e
LastError(last_err, e) == e

\* raise last_err if last_err else RuntimeError(...)
Raised(role, last_err) ==
    IF last_err # None
    THEN last_err
    ELSE [ type |-> "RuntimeError", message |-> <<"All Groq models failed">> ]

\* Continues, were the last two candidates never reached by a fallback
Continues_StopsEarly(role, message, attempt, candidates) ==
    Retryable(role, message) /\ attempt + 1 < candidates

\* Continues, were every failure followed by the next candidate
Continues_WhateverError(role, message, attempt, candidates) ==
    attempt < candidates

\* after a failed attempt: does the loop go on to another candidate?  The
\* agents "continue" on a retryable message and the loop ends after the last
\* candidate; the conversational agent tests attempt < len(model_candidates)
\* itself.
Continues(role, message, attempt, candidates) ==
    Retryable(role, message) /\ attempt < candidates

\* the agent is constructed and _invoke_with_fallback is entered
Invocation(role, env_list) ==
    [ role |-> role,
      model_candidates |-> load_model_candidates(env_list),
      attempts |-> <<>>,        \* the models tried so far, each with its error
      last_err |-> None,
      outcome |-> None ]        \* None while the loop runs

NoRun ==
    /\ request = None
    /\ node = None
    /\ state = <<>>
    /\ calls = NoCalls
    /\ last_evaluation = None
    /\ response = None
    /\ stories = <<>>

InvokerInit ==
    /\ NoRun
    /\ parsing = None
    /\ routing = None
    /\ serving = None
    /\ storage = None
    /\ deciding = None
    /\ sharing = None
    /\ chatting = None
    /\ invocation \in { Invocation(role, env_list) : role \in Roles, env_list \in EnvLists }

\* the model of the next candidate
NextModel == invocation.model_candidates[Len(invocation.attempts) + 1]

Looping ==
    /\ invocation.outcome = None
    /\ Len(invocation.attempts) < Len(invocation.model_candidates)

\* return self.llm.invoke(messages)
AttemptReturns ==
    /\ Looping
    /\ invocation' =
          [ invocation EXCEPT
              !.attempts = Append(@, [ model |-> NextModel, error |-> None ]),
              !.outcome = [ kind |-> "returned", value |-> Reply(NextModel) ] ]
    /\ UNCHANGED <<vars, parsing, routing, serving, storage, deciding, sharing, chatting>>

\* except Exception as e: the next candidate, or raise
AttemptRaises ==
    /\ Looping
    /\ \E message \in ErrorMessages :
          LET attempt == Len(invocation.attempts) + 1
              last_err == LastError(invocation.last_err,
                                    AttemptError(NextModel, message))
          IN  invocation' =
                [ invocation EXCEPT
                    !.attempts = Append(@, [ model |-> NextModel, error |-> message ]),
                    !.last_err = last_err,
                    !.outcome =
                        IF Continues(invocation.role, message, attempt,
                                     Len(invocation.model_candidates))
                        THEN None
                        ELSE [ kind |-> "raised",
                               value |-> Raised(invocation.role, last_err) ] ]
    /\ UNCHANGED <<vars, parsing, routing, serving, storage, deciding, sharing, chatting>>

InvokerNext ==
    \/ AttemptReturns
    \/ AttemptRaises

InvokerSpec == InvokerInit /\ [][InvokerNext]_all_vars

(***************************************************************************)
(* Properties of the model invoker.                                        *)
(***************************************************************************)
Invoking == invocation # None

Tried == IF Invoking THEN Len(invocation.attempts) ELSE 0

Candidates == IF Invoking THEN Len(invocation.model_candidates) ELSE 0

\* attempt i failed with a message the role classifies as retryable
FailedRetryably(i) ==
    /\ i <= Tried
    /\ invocation.attempts[i].error # None
    /\ Retryable(invocation.role, invocation.attempts[i].error)

FailedFatally(i) ==
    /\ i <= Tried
    /\ invocation.attempts[i].error # None
    /\ ~ Retryable(invocation.role, invocation.attempts[i].error)

\* C12: with two candidates or more, when candidate 1 fails with a retryable
\* error the loop goes on to candidate 2, and when candidate 2 then succeeds
\* the invocation returns candidate 2's reply without calling candidate 3.
C12_FallbackReturnsSecondCandidate ==
    (Invoking /\ Candidates >= 2 /\ FailedRetryably(1)) =>
        /\ Tried = 1 => invocation.outcome = None
        /\ (Tried >= 2 /\ invocation.attempts[2].error = None) =>
              /\ Tried = 2
              /\ invocation.outcome =
                    [ kind |-> "returned",
                      value |-> Reply(invocation.model_candidates[2]) ]

\* the conversational agent's second of three candidates answered
C12_Witness ==
    /\ Invoking
    /\ invocation.role = "conversational"
    /\ Candidates = 3
    /\ FailedRetryably(1)
    /\ Tried = 2
    /\ invocation.outcome # None
    /\ invocation.outcome.kind = "returned"

AllFailedRetryably ==
    /\ Invoking
    /\ Tried = Candidates
    /\ \A i \in 1..Tried :
          /\ FailedRetryably(i)
          /\ invocation.attempts[i].model = invocation.model_candidates[i]

C16_RetryableIsTheDocumentedSet ==
    (Invoking /\ Tried = 1 /\ Candidates >= 2 /\ invocation.attempts[1].error # None) =>
        ( invocation.outcome = None <=>
            invocation.attempts[1].error \in
                { RateLimitReached, TooManyRequests, QuotaExceeded,
                  ModelDecommissioned, ModelDeprecated, InvalidApiKey, TokenLimit } )

(***************************************************************************)
(* The parsers of the agents' replies: JudgeAgent._parse_evaluation and    *)
(* StorytellerAgent._parse_story_response (agents.py).  A reply is a       *)
(* sequence of pieces of text: a label with its colon, a blank, a line     *)
(* break, a digit, or a word.                                              *)
(***************************************************************************)
MaxStatedScore == 12    \* the numbers a judge's reply states: 0..MaxStatedScore

SetMin(S) == CHOOSE x \in S : \A y \in S : x <= y

DigitPieces == <<"0", "1", "2", "3", "4", "5", "6", "7", "8", "9">>

\* \d
IsDigit(piece) == \E d \in 1..10 : DigitPieces[d] = piece

DigitValue(piece) == (CHOOSE d \in 1..10 : DigitPieces[d] = piece) - 1

\* int(group) of a run of digits
RECURSIVE int(_)
int(digits) ==
    IF digits = <<>> THEN 0
    ELSE 10 * int(SubSeq(digits, 1, Len(digits) - 1)) + DigitValue(digits[Len(digits)])

\* the decimal numeral of n, as a reply writes it
RECURSIVE Numeral(_)
Numeral(n) ==
    IF n < 10 THEN << DigitPieces[n + 1] >>
    ELSE Numeral(n \div 10) \o << DigitPieces[(n % 10) + 1] >>

\* str.upper() of a piece; re.IGNORECASE compares the pieces so
UpperPiece(piece) ==
    CASE piece = "clarity:" -> "CLARITY:"
      [] piece = "Overall:" -> "OVERALL:"
      [] piece = "approved:" -> "APPROVED:"
      [] piece = "title:" -> "TITLE:"
      [] piece = "Story:" -> "STORY:"
      [] piece = "yes" -> "YES"
      [] piece = "no" -> "NO"
      [] piece = "inappropriate" -> "INAPPROPRIATE"
      [] piece = "appropriate" -> "APPROPRIATE"
      [] OTHER -> piece

\* where the pattern's label matches
LabelAt(text, label) == { i \in 1..Len(text) : UpperPiece(text[i]) = label }

\* \s* after position i, greedy: the position of its last blank (i if none)
SpacesEnd(text, i) ==
    SetMax({ j \in i..Len(text) : \A k \in (i + 1)..j : IsSpace(text[k]) })

\* (\d+) after position j, greedy: the position of its last digit (j if none)
DigitsEnd(text, j) ==
    SetMax({ k \in j..Len(text) : \A m \in (j + 1)..k : IsDigit(text[m]) })

\* re.search(r'LABEL:\s*(\d+)', ...): the labels a number follows
NumberMatches(text, label) ==
    { i \in LabelAt(text, label) :
        DigitsEnd(text, SpacesEnd(text, i)) > SpacesEnd(text, i) }

\* ParsedScore, were a missing score read as 0
ParsedScore_ZeroDefault(text, label) ==
    IF NumberMatches(text, label) = {} THEN 0
    ELSE LET i == SetMin(NumberMatches(text, label))
             j == SpacesEnd(text, i)
         IN  int(SubSeq(text, j + 1, DigitsEnd(text, j)))

\* int(match.group(1)) if match else 7
ParsedScore(text, label) ==
    IF NumberMatches(text, label) = {} THEN 7
    ELSE LET i == SetMin(NumberMatches(text, label))
             j == SpacesEnd(text, i)
         IN  int(SubSeq(text, j + 1, DigitsEnd(text, j)))

\* re.search(r'APPROVED:\s*(YES|NO)', ...)
ApprovedMatches(text) ==
    { i \in LabelAt(text, "APPROVED:") :
        /\ SpacesEnd(text, i) < Len(text)
        /\ UpperPiece(text[SpacesEnd(text, i) + 1]) \in {"YES", "NO"} }

\* approved_match.group(1).upper() == "YES" if approved_match else False
ParsedApproved(text) ==
    IF ApprovedMatches(text) = {} THEN FALSE
    ELSE UpperPiece(text[SpacesEnd(text, SetMin(ApprovedMatches(text))) + 1]) = "YES"

\* re.search(r'LABEL:\s*([\s\S]+)', ...): the label must have text behind it
RestMatches(text, label) == { i \in LabelAt(text, label) : i < Len(text) }

\* group(1) of that match: what follows the blanks, to the end of the reply;
\* when only blanks follow, \s* gives the last one back to the group
RestGroup(text, label) ==
    LET i == SetMin(RestMatches(text, label))
        j == Min(SpacesEnd(text, i), Len(text) - 1)
    IN  SubSeq(text, j + 1, Len(text))

\* a text of one piece
Text(string) == << string >>

\* feedback_match.group(1).strip() if feedback_match else "Story evaluated."
ParsedFeedback(text) ==
    IF RestMatches(text, "FEEDBACK:") = {} THEN Text(DefaultFeedback)
    ELSE Strip(RestGroup(text, "FEEDBACK:"))

\* JudgeAgent._parse_evaluation
parse_evaluation(response_text) ==
    [ clarity |-> ParsedScore(response_text, "CLARITY:"),
      moralValue |-> ParsedScore(response_text, "MORAL:"),
      ageAppropriateness |-> ParsedScore(response_text, "AGE_APPROPRIATE:"),
      score |-> ParsedScore(response_text, "OVERALL:"),
      approved |-> ParsedApproved(response_text),
      feedback |-> ParsedFeedback(response_text) ]

\* re.search(r'TITLE:\s*(.+?)\n', ...), the label at i and \s* ending at j:
\* where the lazy (.+?) may end, on pieces of one line with a line break
\* behind them
TitleEnds(text, j) ==
    { k \in (j + 1)..(Len(text) - 1) :
        /\ \A m \in (j + 1)..k : text[m] # NL
        /\ text[k + 1] = NL }

\* the ends of \s* from which the rest of the pattern matches
TitleStarts(text, i) ==
    { j \in i..SpacesEnd(text, i) : TitleEnds(text, j) # {} }

TitleMatches(text) == { i \in LabelAt(text, "TITLE:") : TitleStarts(text, i) # {} }

\* group(1): \s* takes what it can, (.+?) as little as it can
TitleGroup(text) ==
    LET i == SetMin(TitleMatches(text))
        j == SetMax(TitleStarts(text, i))
    IN  SubSeq(text, j + 1, SetMin(TitleEnds(text, j)))

\* StorytellerAgent._parse_story_response
parse_story_response(response_text) ==
    [ title |-> IF TitleMatches(response_text) # {}
                THEN Strip(TitleGroup(response_text))
                ELSE Text(DefaultTitle),
      content |-> IF RestMatches(response_text, "STORY:") # {}
                  THEN Strip(RestGroup(response_text, "STORY:"))
                  ELSE response_text ]

\* the lines a judge's reply is made of; an empty line is a missing one
ClarityLines ==
    { <<>>,
      <<"clarity:", NL, "8", NL>>,
      <<"CLARITY:", SP, "N/A", NL>>,
      <<"CLARITY:", SP, "-", "3", NL>> }
    \cup { <<"CLARITY:", SP>> \o Numeral(n) \o <<NL>> : n \in 0..MaxStatedScore }

MoralLines == { <<>>, <<"MORAL:", SP, "8", NL>>, <<"MORAL:", SP, "high", NL>> }

AgeLines == { <<>>, <<"AGE_APPROPRIATE:", SP, "9", NL>> }

OverallLines ==
    { <<>>,
      <<"OVERALL:", SP, "9", NL>>,
      <<"Overall:", SP, "1", "0", "/", "1", "0", NL>>,
      <<"OVERALL:", SP, "9", ".", "5", NL>> }

ApprovedLines ==
    { <<>>,
      <<"APPROVED:", SP, "YES", NL>>,
      <<"approved:", SP, "no", NL>>,
      <<"APPROVED:", SP, "MAYBE", NL>> }

FeedbackLines ==
    { <<>>,
      <<"FEEDBACK:">>,
      <<"FEEDBACK:", NL>>,
      <<"FEEDBACK:", SP, "Lovely", SP, "story.", NL>> }

EvaluationLines ==
    [ clarity : ClarityLines, moral : MoralLines, age : AgeLines,
      overall : OverallLines, approved : ApprovedLines, feedback : FeedbackLines ]

\* response.content of the judge's model
EvaluationText(lines) ==
    lines.clarity \o lines.moral \o lines.age \o lines.overall
        \o lines.approved \o lines.feedback

\* the parts a storyteller's reply is made of
Preambles == { <<>>, <<"Sure!", NL>> }

TitleLines ==
    { <<>>,
      <<"TITLE:", SP, "The", SP, "Shy", SP, "Rabbit", NL>>,
      <<"title:", SP, "Rabbit", SP, NL>>,
      <<"TITLE:", NL>> }

StoryBodies == { Blocks(k, BlankLine) : k \in 1..MaxParagraphs }

StoryParts ==
    { <<>> }
    \cup StoryBodies
    \cup { <<"STORY:", SP>> \o body : body \in StoryBodies }
    \cup { <<"Story:", NL>> \o body \o <<NL>> : body \in StoryBodies }

StoryLines == [ preamble : Preambles, title : TitleLines, story : StoryParts ]

\* response.content of the storyteller's model
StoryText(lines) == lines.preamble \o lines.title \o lines.story

Parsing(parser, lines, response_text) ==
    [ parser |-> parser, lines |-> lines, response_text |-> response_text,
      result |-> None ]        \* None until the parser returned

ParserInit ==
    /\ NoRun
    /\ invocation = None
    /\ routing = None
    /\ serving = None
    /\ storage = None
    /\ deciding = None
    /\ sharing = None
    /\ chatting = None
    /\ parsing \in
          { Parsing("parse_evaluation", lines, EvaluationText(lines)) :
                lines \in EvaluationLines }
          \cup { Parsing("parse_story_response", lines, StoryText(lines)) :
                     lines \in StoryLines }

\* return self._parse_evaluation(response.content)
ParseEvaluation ==
    /\ parsing.parser = "parse_evaluation"
    /\ parsing.result = None
    /\ parsing' = [ parsing EXCEPT !.result = parse_evaluation(parsing.response_text) ]
    /\ UNCHANGED <<vars, invocation, routing, serving, storage, deciding, sharing, chatting>>

\* return self._parse_story_response(response.content)
ParseStoryResponse ==
    /\ parsing.parser = "parse_story_response"
    /\ parsing.result = None
    /\ parsing' = [ parsing EXCEPT !.result = parse_story_response(parsing.response_text) ]
    /\ UNCHANGED <<vars, invocation, routing, serving, storage, deciding, sharing, chatting>>

ParserNext ==
    \/ ParseEvaluation
    \/ ParseStoryResponse

ParserSpec == ParserInit /\ [][ParserNext]_all_vars

(***************************************************************************)
(* Properties of the parsers.                                              *)
(***************************************************************************)
Parsed(parser) ==
    /\ parsing # None
    /\ parsing.parser = parser
    /\ parsing.result # None

\* C17: every score _parse_evaluation returns (clarity, moral value, age
\* appropriateness, overall) lies within 1..10, whatever the reply states.
C17_ScoresWithinOneToTen ==
    Parsed("parse_evaluation") =>
        /\ parsing.result.clarity \in 1..10
        /\ parsing.result.moralValue \in 1..10
        /\ parsing.result.ageAppropriateness \in 1..10
        /\ parsing.result.score \in 1..10

\* the lines of a reply from which the field cannot be extracted
NoClarity == { <<>>, <<"CLARITY:", SP, "N/A", NL>>, <<"CLARITY:", SP, "-", "3", NL>> }
NoMoral == { <<>>, <<"MORAL:", SP, "high", NL>> }
NoApproved == { <<>>, <<"APPROVED:", SP, "MAYBE", NL>> }
NoFeedback == { <<>>, <<"FEEDBACK:">> }

C19_EitherLabelMissingGivesDefaults ==
    ( /\ Parsed("parse_story_response")
      /\ \/ LabelAt(parsing.response_text, "TITLE:") = {}
         \/ LabelAt(parsing.response_text, "STORY:") = {} )
    => /\ parsing.result.title = Text(DefaultTitle)
       /\ parsing.result.content = parsing.response_text

(***************************************************************************)
(* The conversational router: ConversationalAgent.process_message          *)
(* (conversational_agent.py).  Each of its model calls returns the model's *)
(* reply or raises (the agent's _invoke_with_fallback gave up).            *)
(***************************************************************************)
MaxHistory == 2         \* a conversation history holds 0..MaxHistory messages

MAX_CONTEXT_ANALYSIS_HISTORY == 8

upper(text) == [i \in 1..Len(text) |-> UpperPiece(text[i])]

\* the user's messages
UserMessages ==
    { <<"Tell", SP, "me", SP, "a", SP, "story">>,
      <<"Who", SP, "am", SP, "I", "?">>,
      <<"Hello">> }

RECURSIVE History(_)
History(n) ==
    IF n = 0 THEN <<>>
    ELSE History(n - 1) \o << [ role |-> "user", content |-> <<"Hello">> ] >>

\* conversation_history[-n:]
Recent(conversation_history, n) ==
    SubSeq(conversation_history,
           Len(conversation_history) - Min(n, Len(conversation_history)) + 1,
           Len(conversation_history))

\* self.sessions[sid]: what the agent knows of the user
Sessions == { [ name |-> None, age |-> None ], [ name |-> <<"Mia">>, age |-> <<7>> ] }

\* what a model call does: it raises, or returns response.content
CallOutcomes(replies) ==
    { [ raised |-> TRUE, content |-> <<>> ] }
        \cup { [ raised |-> FALSE, content |-> reply ] : reply \in replies }

\* the replies to the extraction prompt: no JSON, or a JSON object with a
\* name and an age ("null" is JSON's null)
ExtractionReplies ==
    { [ json |-> FALSE, name |-> "null", age |-> "null" ] }
        \cup [ json : {TRUE}, name : {"null", "Mia", "McKay"}, age : {"null", "7", "seven"} ]

\* str.capitalize(): the first character in upper case, the rest in lower case
Capitalize(name) ==
    CASE name = "mia" -> "Mia"
      [] name = "Mia" -> "Mia"
      [] name = "McKay" -> "Mckay"
      [] OTHER -> name

\* extract_user_info: every exception is swallowed; int(info['age']) raises
\* on "seven" after the name was stored
ExtractedInfo(ctx, outcome) ==
    IF outcome.raised \/ ~ outcome.content.json THEN ctx
    ELSE LET info == outcome.content
             named == IF info.name # "null"
                      THEN [ ctx EXCEPT !.name = << Capitalize(info.name) >> ]
                      ELSE ctx
         IN  IF info.age = "7" THEN [ named EXCEPT !.age = << 7 >> ] ELSE named

SafetyReplies == { <<"APPROPRIATE">>, <<"INAPPROPRIATE">>, <<"inappropriate", NL>> }

\* a safety check that fails closed
IsInappropriate_FailClosed(outcome) ==
    IF outcome.raised THEN TRUE
    ELSE In(<<"INAPPROPRIATE">>, upper(Strip(outcome.content)))

\* is_inappropriate_content: False when the call fails
IsInappropriate(outcome) ==
    IF outcome.raised THEN FALSE
    ELSE In(<<"INAPPROPRIATE">>, upper(Strip(outcome.content)))

YesNoReplies == { <<"Yes">>, <<"No">>, <<SP, "YES", ".", NL>> }

\* is_question_about_self: a keyword check when the call fails
IsQuestionAboutSelf(message, outcome) ==
    IF outcome.raised
    THEN \/ In(<<"my", SP, "name">>, lower(message))
         \/ In(<<"who", SP, "am", SP, "i">>, lower(message))
    ELSE In(<<"yes">>, lower(Strip(outcome.content)))

\* should_generate_story: a keyword check when the call fails
ShouldGenerateStory(message, outcome) ==
    IF outcome.raised
    THEN In(<<"story">>, lower(message)) \/ In(<<"tale">>, lower(message))
    ELSE In(<<"yes">>, lower(Strip(outcome.content)))

NamePart(ctx) == IF ctx.name # None THEN << ctx.name[1], ", " >> ELSE <<>>

\* _handle_inappropriate_content
HandleInappropriateContent(ctx) ==
    [ type |-> "inappropriate",
      response |-> <<"Oh ">> \o NamePart(ctx) \o <<"I'm sorry, but I can only create stories that are fun and safe for children. ",
                         "How about we try a different adventure? Maybe something with friendly animals, magic, ",
                         "or exploring new places?">>,
      should_generate_story |-> FALSE,
      story_prompt |-> None ]

\* _handle_self_inquiry
HandleSelfInquiry(ctx) ==
    [ type |-> "conversation",
      response |->
          IF ctx.name # None
          THEN <<"Of course I remember you, ", ctx.name[1], "! ">>
                  \o (IF ctx.age # None THEN <<"You're ">> \o Numeral(ctx.age[1]) \o <<" years old. ">> ELSE <<>>)
                  \o <<"Is there anything else you'd like to tell me about yourself, or shall we create a story?">>
          ELSE <<"I don't think you've told me your name yet! What should I call you?">>,
      should_generate_story |-> FALSE,
      story_prompt |-> None ]

\* the replies to the context analysis: a prompt, or nothing but blanks
ContextReplies ==
    { <<SP, "a", SP, "story", SP, "about", SP, "rabbits", NL>>, <<SP, NL>> }

\* a story request that carries no prompt
HandleStoryRequest_NoPrompt(ctx, context_prompt) ==
    [ type |-> "story_request",
      response |-> <<"Great idea, ">> \o NamePart(ctx) \o <<"let me create that story for you!">>,
      should_generate_story |-> TRUE,
      story_prompt |-> None ]

\* _handle_story_request, _build_context_aware_prompt having returned; the
\* prompt is a string, the empty one included, never None
HandleStoryRequest(ctx, context_prompt) ==
    [ type |-> "story_request",
      response |-> <<"Great idea, ">> \o NamePart(ctx) \o <<"let me create that story for you!">>,
      should_generate_story |-> TRUE,
      story_prompt |-> << context_prompt >> ]

\* ConversationNode.__call__: what the graph takes from the result
ConversationNodeUpdates(result, user_message) ==
    IF result.should_generate_story
    THEN [ agent_response |-> result.response,
           should_generate_story |-> TRUE,
           story_prompt |-> result.story_prompt,
           next_step |-> "generate_story" ]
    ELSE [ agent_response |-> result.response,
           should_generate_story |-> FALSE,
           story_prompt |-> None,
           next_step |-> "end" ]

ConversationReplies == { <<"Hello", SP, "there!">> }

\* _handle_conversation, generate_conversational_response having returned
HandleConversation(reply) ==
    [ type |-> "conversation",
      response |-> reply,
      should_generate_story |-> FALSE,
      story_prompt |-> None ]

\* process_message is entered
Routing(message, conversation_history, ctx) ==
    [ message |-> message,
      conversation_history |-> conversation_history,
      ctx |-> ctx,
      extraction |-> None,          \* what extract_user_info's model call did,
                                    \* and the context it found
      pc |-> "extract_user_info",   \* the call process_message makes next
      failed |-> {},                \* the model calls that raised
      invoked |-> <<>>,             \* the calls made so far, in order, each
                                    \* with whether its check matched
      result |-> None ]             \* what process_message returned

RouterInit ==
    /\ NoRun
    /\ invocation = None
    /\ parsing = None
    /\ serving = None
    /\ storage = None
    /\ deciding = None
    /\ sharing = None
    /\ chatting = None
    /\ routing \in { Routing(message, History(n), ctx) :
                        message \in UserMessages, n \in 0..MaxHistory, ctx \in Sessions }

At(call) == routing.pc = call

Failed(call, outcome) ==
    IF outcome.raised THEN routing.failed \cup {call} ELSE routing.failed

Invoked(call, matched) ==
    Append(routing.invoked, [ call |-> call, matched |-> matched ])

\* self.extract_user_info(message, session_id)
ExtractUserInfo ==
    /\ At("extract_user_info")
    /\ \E outcome \in CallOutcomes(ExtractionReplies) :
          routing' = [ routing EXCEPT
                         !.ctx = ExtractedInfo(@, outcome),
                         !.extraction = << [ outcome |-> outcome, ctx |-> routing.ctx ] >>,
                         !.failed = Failed("extract_user_info", outcome),
                         !.invoked = Invoked("extract_user_info", FALSE),
                         !.pc = "is_inappropriate_content" ]
    /\ UNCHANGED <<vars, invocation, parsing, serving, storage, deciding, sharing, chatting>>

\* a safety check whose match does not return
IsInappropriateContent_FallsThrough ==
    /\ At("is_inappropriate_content")
    /\ \E outcome \in CallOutcomes(SafetyReplies) :
          routing' = [ routing EXCEPT
                         !.failed = Failed("is_inappropriate_content", outcome),
                         !.invoked = Invoked("is_inappropriate_content",
                                             IsInappropriate(outcome)),
                         !.pc = "is_question_about_self" ]
    /\ UNCHANGED <<vars, invocation, parsing, serving, storage, deciding, sharing, chatting>>

\* if self.is_inappropriate_content(message, session_id): return ...
IsInappropriateContent ==
    /\ At("is_inappropriate_content")
    /\ \E outcome \in CallOutcomes(SafetyReplies) :
          routing' = [ routing EXCEPT
                         !.failed = Failed("is_inappropriate_content", outcome),
                         !.invoked = Invoked("is_inappropriate_content",
                                             IsInappropriate(outcome)),
                         !.pc = IF IsInappropriate(outcome)
                                THEN "returned" ELSE "is_question_about_self",
                         !.result = IF IsInappropriate(outcome)
                                    THEN HandleInappropriateContent(routing.ctx)
                                    ELSE None ]
    /\ UNCHANGED <<vars, invocation, parsing, serving, storage, deciding, sharing, chatting>>

\* if self.is_question_about_self(message): return ...
QuestionAboutSelf ==
    /\ At("is_question_about_self")
    /\ \E outcome \in CallOutcomes(YesNoReplies) :
          LET yes == IsQuestionAboutSelf(routing.message, outcome)
          IN  routing' = [ routing EXCEPT
                             !.failed = Failed("is_question_about_self", outcome),
                             !.invoked = Invoked("is_question_about_self", yes),
                             !.pc = IF yes THEN "returned" ELSE "should_generate_story",
                             !.result = IF yes THEN HandleSelfInquiry(routing.ctx)
                                        ELSE None ]
    /\ UNCHANGED <<vars, invocation, parsing, serving, storage, deciding, sharing, chatting>>

\* if self.should_generate_story(message): _handle_story_request, which
\* returns at once when there is no history to analyse
StoryRequestDetection ==
    /\ At("should_generate_story")
    /\ \E outcome \in CallOutcomes(YesNoReplies) :
          LET yes == ShouldGenerateStory(routing.message, outcome)
              recent_history == Recent(routing.conversation_history,
                                       MAX_CONTEXT_ANALYSIS_HISTORY)
          IN  routing' = [ routing EXCEPT
                             !.failed = Failed("should_generate_story", outcome),
                             !.invoked = Invoked("should_generate_story", yes),
                             !.pc = IF ~ yes THEN "generate_conversational_response"
                                    ELSE IF recent_history = <<>> THEN "returned"
                                    ELSE "build_context_aware_prompt",
                             !.result = IF yes /\ recent_history = <<>>
                                        THEN HandleStoryRequest(routing.ctx, routing.message)
                                        ELSE None ]
    /\ UNCHANGED <<vars, invocation, parsing, serving, storage, deciding, sharing, chatting>>

\* _build_context_aware_prompt: the message itself when the call fails
BuildContextAwarePrompt ==
    /\ At("build_context_aware_prompt")
    /\ \E outcome \in CallOutcomes(ContextReplies) :
          routing' = [ routing EXCEPT
                         !.failed = Failed("build_context_aware_prompt", outcome),
                         !.invoked = Invoked("build_context_aware_prompt", FALSE),
                         !.pc = "returned",
                         !.result = HandleStoryRequest(routing.ctx,
                                        IF outcome.raised THEN routing.message
                                        ELSE Strip(outcome.content)) ]
    /\ UNCHANGED <<vars, invocation, parsing, serving, storage, deciding, sharing, chatting>>

\* _handle_conversation: generate_conversational_response has no except
\* clause, the exception of its call leaves process_message
GenerateConversationalResponse ==
    /\ At("generate_conversational_response")
    /\ \E outcome \in CallOutcomes(ConversationReplies) :
          routing' = [ routing EXCEPT
                         !.failed = Failed("generate_conversational_response", outcome),
                         !.invoked = Invoked("generate_conversational_response", FALSE),
                         !.pc = IF outcome.raised THEN "raised" ELSE "returned",
                         !.result = IF outcome.raised THEN None
                                    ELSE HandleConversation(outcome.content) ]
    /\ UNCHANGED <<vars, invocation, parsing, serving, storage, deciding, sharing, chatting>>

RouterNext ==
    \/ ExtractUserInfo
    \/ IsInappropriateContent
    \/ QuestionAboutSelf
    \/ StoryRequestDetection
    \/ BuildContextAwarePrompt
    \/ GenerateConversationalResponse

RouterSpec == RouterInit /\ [][RouterNext]_all_vars

(***************************************************************************)
(* Properties of the router.                                               *)
(***************************************************************************)
\* C20: when a single model call of process_message fails (identity
\* extraction, safety classification, self-inquiry detection, story-request
\* detection, context analysis or reply generation), process_message still
\* returns a routing result: it never raises.
C20_SingleFailureStillRoutes ==
    (routing # None /\ Cardinality(routing.failed) <= 1) =>
        /\ routing.pc # "raised"
        /\ routing.pc = "returned" =>
              /\ routing.result # None
              /\ routing.result.type \in {"conversation", "story_request", "inappropriate"}

Routed == routing # None /\ routing.pc = "returned"

\* the calls of process_message in the order of its code
CheckOrder ==
    << "extract_user_info", "is_inappropriate_content", "is_question_about_self",
       "should_generate_story" >>

\* the calls a matched check may still be followed by: only the context
\* analysis of the story request it matched
HandlerCalls(call) ==
    IF call = "should_generate_story" THEN {"build_context_aware_prompt"} ELSE {}

\* C21: process_message runs identity extraction first and then the checks
\* in the order safety, self-inquiry, story-request, plain conversation,
\* returning at the first match: no later classifier is invoked after a
\* match, a message flagged inappropriate gets the inappropriate result, and
\* a message classified as self-inquiry never triggers story generation.
C21_ChecksInOrderFirstMatchReturns ==
    routing # None =>
        LET invoked == routing.invoked
            n == Len(invoked)
        IN  /\ \A i \in 1..Min(n, 4) : invoked[i].call = CheckOrder[i]
            /\ n <= 5
            /\ n = 5 => invoked[5].call \in {"build_context_aware_prompt",
                                             "generate_conversational_response"}
            /\ \A i \in 1..n : \A j \in (i + 1)..n :
                  invoked[i].matched => invoked[j].call \in HandlerCalls(invoked[i].call)
            /\ \A i \in 1..n :
                  (invoked[i].matched /\ HandlerCalls(invoked[i].call) = {}) =>
                      Routed /\ i = n
            /\ (n >= 2 /\ invoked[2].matched) =>
                  /\ routing.result.type = "inappropriate"
                  /\ ~ routing.result.should_generate_story
            /\ (n >= 3 /\ invoked[3].matched) =>
                  /\ routing.result = HandleSelfInquiry(routing.ctx)
                  /\ ~ routing.result.should_generate_story
            /\ (Routed /\ routing.result.type = "story_request") =>
                  /\ n >= 4 /\ invoked[4].matched
                  /\ ~ invoked[2].matched /\ ~ invoked[3].matched
            /\ (n = 5 /\ invoked[5].call = "generate_conversational_response") =>
                  \A i \in 1..4 : ~ invoked[i].matched

\* a story request ("Tell me a story") that the self-inquiry check matched:
\* it returned the self-inquiry answer after three calls
C21_Witness ==
    /\ Routed
    /\ In(<<"story">>, lower(routing.message))
    /\ Len(routing.invoked) = 3
    /\ routing.invoked[3].matched
    /\ ~ routing.result.should_generate_story

\* C22: every result of process_message has should_generate_story true
\* exactly when its type is story_request, and a story_prompt that is not
\* None exactly when should_generate_story is true; inappropriate,
\* self-inquiry and plain-conversation results carry should_generate_story
\* false and no story_prompt, and the graph goes on to story generation for
\* story requests only.
C22_StoryFlagAndPromptFollowType ==
    Routed =>
        LET result == routing.result
            updates == ConversationNodeUpdates(result, routing.message)
        IN  /\ result.should_generate_story \in BOOLEAN
            /\ result.should_generate_story <=> (result.type = "story_request")
            /\ (result.story_prompt # None) <=> result.should_generate_story
            /\ result.type \in {"inappropriate", "conversation"} =>
                  /\ ~ result.should_generate_story
                  /\ result.story_prompt = None
            /\ (updates.next_step = "generate_story") <=> (result.type = "story_request")
            /\ updates.next_step = "generate_story" => updates.story_prompt # None

\* a story request whose context analysis replied with blanks only: its
\* prompt is the empty string, which is a prompt all the same
C22_Witness ==
    /\ Routed
    /\ routing.result.type = "story_request"
    /\ routing.result.should_generate_story
    /\ routing.result.story_prompt = << <<>> >>
    /\ Len(routing.invoked) = 5

SafetyCallFailed == routing # None /\ "is_inappropriate_content" \in routing.failed

\* C23: when the safety classifier call itself fails, the message is treated
\* as appropriate and routing continues with the later steps: the failure
\* produces no inappropriate result and does not end the routing, and alone
\* it makes process_message neither return early nor raise.
C23_SafetyFailureIsAppropriate ==
    SafetyCallFailed =>
        /\ ~ routing.invoked[2].matched
        /\ Len(routing.invoked) = 2 =>
              /\ routing.pc = "is_question_about_self"
              /\ routing.result = None
        /\ Routed => /\ routing.result.type # "inappropriate"
                     /\ Len(routing.invoked) >= 3
        /\ routing.failed = {"is_inappropriate_content"} => routing.pc # "raised"

\* the safety call failed and the message went on to be routed as a story
\* request
C23_Witness ==
    /\ SafetyCallFailed
    /\ Routed
    /\ routing.result.type = "story_request"

(***************************************************************************)
(* The chat route (api/routes/conversation.py, api/dependencies.py):       *)
(* requests for one session id served at once.  FastAPI resolves the       *)
(* dependency get_conversational_agent, a plain function, in a worker      *)
(* thread, and then runs the coroutine chat on the event loop, where       *)
(* process_message, which awaits nothing, runs to its end.                 *)
(***************************************************************************)
MaxRequests == 2        \* the requests in flight for the session

ChatRequests == 1..MaxRequests

\* what process_message does after extract_user_info: the results its
\* checks can give, and whether it raises
RouteOutcomes(message, conversation_history, ctx) ==
    LET inappropriate == { IsInappropriate(o) : o \in CallOutcomes(SafetyReplies) }
        about_self == { IsQuestionAboutSelf(message, o) : o \in CallOutcomes(YesNoReplies) }
        story == { ShouldGenerateStory(message, o) : o \in CallOutcomes(YesNoReplies) }
        prompts ==
            IF Recent(conversation_history, MAX_CONTEXT_ANALYSIS_HISTORY) = <<>>
            THEN { message }
            ELSE { IF o.raised THEN message ELSE Strip(o.content) :
                      o \in CallOutcomes(ContextReplies) }
    IN  { [ raised |-> FALSE, self_inquiry |-> FALSE,
            result |-> HandleInappropriateContent(ctx) ] : b \in inappropriate \ {FALSE} }
        \cup { [ raised |-> FALSE, self_inquiry |-> TRUE,
                 result |-> HandleSelfInquiry(ctx) ] :
                  b \in IF FALSE \in inappropriate THEN about_self \ {FALSE} ELSE {} }
        \cup { [ raised |-> FALSE, self_inquiry |-> FALSE,
                 result |-> HandleStoryRequest(ctx, context_prompt) ] :
                  context_prompt \in
                      IF FALSE \in inappropriate /\ FALSE \in about_self /\ TRUE \in story
                      THEN prompts ELSE {} }
        \cup { IF o.raised
               THEN [ raised |-> TRUE, self_inquiry |-> FALSE, result |-> None ]
               ELSE [ raised |-> FALSE, self_inquiry |-> FALSE,
                      result |-> HandleConversation(o.content) ] :
                  o \in IF FALSE \in inappropriate /\ FALSE \in about_self /\ FALSE \in story
                        THEN CallOutcomes(ConversationReplies) ELSE {} }

\* the name a reply to the extraction prompt gives, as the model wrote it
ExtractedName(outcome) ==
    IF outcome.raised \/ ~ outcome.content.json \/ outcome.content.name = "null"
    THEN None
    ELSE << outcome.content.name >>

\* a request as it arrives
ChatRequest ==
    [ pc |-> "get_conversational_agent",
      agent |-> None ]      \* the agent the dependency returned

\* a call of process_message; ConversationRequest.conversation_history is []
\* by default
ProcessMessage(message, known) ==
    [ message |-> message,
      known |-> known,      \* the names extracted in the session before
                            \* this call began
      extracted |-> None,   \* the name extracted from this call's message
      outcome |-> None ]    \* what the call returned or raised

\* a server that has just started: no agent yet, no session
Server ==
    [ conversational_agent |-> None,        \* _conversational_agent
      sessions |-> [ a \in ChatRequests |-> None ],
                       \* agent a's sessions[sid]; the agent a is the one the
                       \* request a constructed
      created |-> 0,   \* the context objects created for the session id
      running |-> 0,   \* the request whose coroutine the event loop runs
      learned |-> {},  \* the names extracted in the session so far
      requests |-> [ r \in ChatRequests |-> ChatRequest ],
      call |-> None ]  \* the call of process_message that runs or ran last

ServerInit ==
    /\ NoRun
    /\ invocation = None
    /\ parsing = None
    /\ routing = None
    /\ storage = None
    /\ deciding = None
    /\ sharing = None
    /\ chatting = None
    /\ serving = Server

Req(r) == serving.requests[r]

\* get_conversational_agent, in a worker thread: if _conversational_agent is None
DependencyCheck(r) ==
    /\ Req(r).pc = "get_conversational_agent"
    /\ serving' = [ serving EXCEPT
                      !.requests[r].pc = IF serving.conversational_agent = None
                                         THEN "ConversationalAgent"
                                         ELSE "return" ]
    /\ UNCHANGED <<vars, invocation, parsing, routing, storage, deciding, sharing, chatting>>

\* _conversational_agent = ConversationalAgent(...)
DependencyCreate(r) ==
    /\ Req(r).pc = "ConversationalAgent"
    /\ serving' = [ serving EXCEPT
                      !.conversational_agent = << r >>,
                      !.requests[r].pc = "return" ]
    /\ UNCHANGED <<vars, invocation, parsing, routing, storage, deciding, sharing, chatting>>

\* return _conversational_agent
DependencyReturn(r) ==
    /\ Req(r).pc = "return"
    /\ serving' = [ serving EXCEPT
                      !.requests[r].agent = serving.conversational_agent,
                      !.requests[r].pc = "chat" ]
    /\ UNCHANGED <<vars, invocation, parsing, routing, storage, deciding, sharing, chatting>>

\* the event loop starts the coroutine chat; process_message begins with
\* extract_user_info, whose _get_session gets or creates the context
GetSession(r) ==
    /\ Req(r).pc = "chat"
    /\ serving.running = 0
    /\ \E message \in UserMessages :
          LET a == Req(r).agent[1]
              create == serving.sessions[a] = None
          IN  serving' = [ serving EXCEPT
                             !.running = r,
                             !.sessions[a] = IF create
                                             THEN << [ name |-> None, age |-> None ] >>
                                             ELSE @,
                             !.created = IF create THEN @ + 1 ELSE @,
                             !.call = << ProcessMessage(message, serving.learned) >>,
                             !.requests[r].pc = "extract_user_info" ]
    /\ UNCHANGED <<vars, invocation, parsing, routing, storage, deciding, sharing, chatting>>

\* extract_user_info writes the name and the age into the context
ExtractIdentity(r) ==
    /\ Req(r).pc = "extract_user_info"
    /\ serving.running = r
    /\ \E outcome \in CallOutcomes(ExtractionReplies) :
          LET a == Req(r).agent[1]
              name == ExtractedName(outcome)
          IN  serving' = [ serving EXCEPT
                             !.sessions[a] = << ExtractedInfo(@[1], outcome) >>,
                             !.learned = IF name = None THEN @ ELSE @ \cup { name[1] },
                             !.call[1].extracted = name,
                             !.requests[r].pc = "is_inappropriate_content" ]
    /\ UNCHANGED <<vars, invocation, parsing, routing, storage, deciding, sharing, chatting>>

\* the checks and the handler of process_message; chat returns and the event
\* loop is free again
RouteMessage(r) ==
    /\ Req(r).pc = "is_inappropriate_content"
    /\ serving.running = r
    /\ \E outcome \in RouteOutcomes(serving.call[1].message, <<>>,
                                    serving.sessions[Req(r).agent[1]][1]) :
          serving' = [ serving EXCEPT
                         !.running = 0,
                         !.call[1].outcome = << outcome >>,
                         !.requests[r].pc = "done" ]
    /\ UNCHANGED <<vars, invocation, parsing, routing, storage, deciding, sharing, chatting>>

ServerNext ==
    \E r \in ChatRequests :
        \/ DependencyCheck(r)
        \/ DependencyCreate(r)
        \/ DependencyReturn(r)
        \/ GetSession(r)
        \/ ExtractIdentity(r)
        \/ RouteMessage(r)

ServerSpec == ServerInit /\ [][ServerNext]_all_vars

(***************************************************************************)
(* Properties of the chat route.                                           *)
(***************************************************************************)
\* the call of process_message that ended last, when it answered a
\* self-inquiry
AnsweredSelfInquiry ==
    /\ serving # None
    /\ serving.call # None
    /\ serving.call[1].outcome # None
    /\ serving.call[1].outcome[1].self_inquiry

NameNotKnownYet ==
    <<"I don't think you've told me your name yet! What should I call you?">>

\* C24: after a message in the session from which the name N was extracted,
\* every later self-inquiry in the session gets a response whose text
\* contains N, with should_generate_story false; if no name has been learned
\* in the session, the response states that the name is not known yet.
C24_SelfInquiryAnswersWithExtractedName ==
    AnsweredSelfInquiry =>
        LET call == serving.call[1]
            result == call.outcome[1].result
        IN  /\ ~ result.should_generate_story
            /\ \A N \in call.known : In(<< N >>, result.response)
            /\ (call.known = {} /\ call.extracted = None) =>
                  result.response = NameNotKnownYet

InProcessMessage(r) == Req(r).pc \in {"extract_user_info", "is_inappropriate_content"}

AllServed == \A r \in ChatRequests : Req(r).pc = "done"

\* C25: two requests for the same session id never interleave their accesses
\* to the session's context: the get-or-create of the context and the
\* name/age writes of one process_message call exclude those of any other,
\* only one context object is ever created for the session id, and no
\* identity update is lost (a name learned is in the context that the
\* server's agent holds for the session).
C25_SessionAccessesAreExclusive ==
    serving # None =>
        /\ \A r1, r2 \in ChatRequests :
              (InProcessMessage(r1) /\ InProcessMessage(r2)) => r1 = r2
        /\ serving.created <= 1
        /\ (AllServed /\ serving.learned # {}) =>
              LET live == serving.sessions[serving.conversational_agent[1]]
              IN  live # None /\ live[1].name # None

(***************************************************************************)
(* The story file (storage.py).                                            *)
(***************************************************************************)
MaxStories == 3         \* the story file holds up to this many stories

\* the session ids of requests: the empty one too
SessionIds == {"", "s1"}

\* Optional[str]
OptionalSessionIds == {None} \cup { << sid >> : sid \in SessionIds }

\* the instants of datetime.utcnow() the model tells apart: seconds and
\* microseconds
Instants == [ second : 0..1, microsecond : 0..1 ]

NotBefore(t, u) ==
    \/ t.second > u.second
    \/ t.second = u.second /\ t.microsecond >= u.microsecond

\* datetime.isoformat(): the microseconds are left out when they are zero
isoformat(t) ==
    <<"2", "0", "2", "6", "-", "1", "1", "-", "0", "6", "T", "0", "3", ":", "0", "0", ":", "0">>
        \o << Numeral(t.second)[1] >>
        \o (IF t.microsecond = 0 THEN <<>>
            ELSE <<".", "0", "0", "0", "0", "0", Numeral(t.microsecond)[1]>>)

\* ord() of the characters of a timestamp
ord(c) ==
    CASE c = "-" -> 45
      [] c = "." -> 46
      [] c = ":" -> 58
      [] c = "T" -> 84
      [] OTHER -> 48 + DigitValue(c)

\* str.__lt__: the order of Python's strings
RECURSIVE StrLess(_, _)
StrLess(a, b) ==
    IF a = <<>> THEN b # <<>>
    ELSE IF b = <<>> THEN FALSE
    ELSE IF Head(a) = Head(b) THEN StrLess(Tail(a), Tail(b))
    ELSE ord(Head(a)) < ord(Head(b))

\* a sort that puts the oldest first
RECURSIVE SortNewestFirst_OldestFirst(_)
SortNewestFirst_OldestFirst(listed) ==
    IF listed = <<>> THEN <<>>
    ELSE LET x == listed[Len(listed)]
             sorted == SortNewestFirst_OldestFirst(SubSeq(listed, 1, Len(listed) - 1))
             after == { i \in 1..Len(sorted) : ~ StrLess(x.created_at, sorted[i].created_at) }
             k == IF after = {} THEN 0 ELSE SetMax(after)
         IN  SubSeq(sorted, 1, k) \o << x >> \o SubSeq(sorted, k + 1, Len(sorted))

\* stories.sort(key=lambda x: x.get("created_at", ""), reverse=True): a
\* stable sort, stories of the same key stay in the order of the file
RECURSIVE SortNewestFirst(_)
SortNewestFirst(listed) ==
    IF listed = <<>> THEN <<>>
    ELSE LET x == listed[Len(listed)]
             sorted == SortNewestFirst(SubSeq(listed, 1, Len(listed) - 1))
             before == { i \in 1..Len(sorted) : ~ StrLess(sorted[i].created_at, x.created_at) }
             k == IF before = {} THEN 0 ELSE SetMax(before)
         IN  SubSeq(sorted, 1, k) \o << x >> \o SubSeq(sorted, k + 1, Len(sorted))

\* if session_id: an empty session id counts as none
Truthy(session_id) == session_id # None /\ session_id # << "" >>

\* [s for s in stories if s.get("session_id") == session_id]
OfSession(file, session_id) ==
    LET Matches(s) == s.session_id = session_id
    IN  SelectSeq(file, Matches)

\* JSONStorage.get_all_stories
get_all_stories(connected, file, session_id) ==
    IF ~ connected THEN <<>>
    ELSE SortNewestFirst(IF Truthy(session_id) THEN OfSession(file, session_id) ELSE file)

\* storage = JSONStorage(): whether the files could be made, an empty file
StorageInit ==
    /\ NoRun
    /\ invocation = None
    /\ parsing = None
    /\ routing = None
    /\ serving = None
    /\ deciding = None
    /\ sharing = None
    /\ chatting = None
    /\ storage \in { [ connected |-> connected,
                       file |-> <<>>,           \* stories.json
                       now |-> [ second |-> 0, microsecond |-> 0 ],
                       saved |-> 0,             \* the calls of save_story
                       asked |-> None,          \* the last call of get_all_stories:
                                                \* its argument, the stories there were
                       listed |-> <<>>,         \* and what it returned
                       handed |-> {},           \* the _ids save_story returned
                                                \* and delete_story did not delete
                       got |-> None ] :         \* the last call of get_story_by_id
                        connected \in BOOLEAN }

\* save_story of a record the route built: the route sets created_at to
\* datetime.utcnow().isoformat(), save_story adds the _id to the caller's
\* dictionary and then writes the file.  _write_file may raise (here: the
\* file cannot be opened for writing, and stays as it was); the handler
\* catches it and returns the dictionary, which carries the _id by then.
SaveStory ==
    /\ storage.saved < MaxStories
    /\ \E session_id \in OptionalSessionIds, t \in Instants, written \in BOOLEAN :
          /\ NotBefore(t, storage.now)
          /\ storage' = [ storage EXCEPT
                            !.now = t,
                            !.saved = @ + 1,
                            !.file = IF storage.connected /\ written
                                     THEN Append(@, [ id |-> storage.saved + 1,
                                                      session_id |-> session_id,
                                                      created |-> t,
                                                      created_at |-> isoformat(t) ])
                                     ELSE @,
                            !.handed = IF storage.connected
                                       THEN @ \cup { storage.saved + 1 }
                                       ELSE @ ]
    /\ UNCHANGED <<vars, invocation, parsing, routing, serving, deciding, sharing, chatting>>

GetAllStories ==
    /\ \E session_id \in OptionalSessionIds :
          storage' = [ storage EXCEPT
                         !.asked = << [ session_id |-> session_id,
                                        stories |-> Len(storage.file) ] >>,
                         !.listed = get_all_stories(storage.connected, storage.file,
                                                    session_id) ]
    /\ UNCHANGED <<vars, invocation, parsing, routing, serving, deciding, sharing, chatting>>

\* JSONStorage.get_story_by_id: the first story of the file with the id
get_story_by_id(connected, file, story_id) ==
    LET at == { i \in 1..Len(file) : file[i].id = story_id }
    IN  IF ~ connected \/ at = {} THEN None ELSE << file[SetMin(at)] >>

GetStoryById ==
    /\ \E story_id \in 1..MaxStories :
          storage' = [ storage EXCEPT
                         !.got = << [ story_id |-> story_id,
                                      handed |-> story_id \in storage.handed,
                                      found |-> get_story_by_id(storage.connected,
                                                                storage.file, story_id) ] >> ]
    /\ UNCHANGED <<vars, invocation, parsing, routing, serving, deciding, sharing, chatting>>

\* JSONStorage.delete_story: the file without the stories of the id, written
\* when there was one
DeleteStory ==
    /\ storage.connected
    /\ \E story_id \in 1..MaxStories :
          LET Others(s) == s.id # story_id
              kept == SelectSeq(storage.file, Others)
          IN  /\ Len(kept) < Len(storage.file)
              /\ storage' = [ storage EXCEPT !.file = kept,
                                              !.handed = @ \ { story_id } ]
    /\ UNCHANGED <<vars, invocation, parsing, routing, serving, deciding, sharing, chatting>>

StorageNext ==
    \/ SaveStory
    \/ GetAllStories

\* saving, looking up and deleting
LookupNext ==
    \/ SaveStory
    \/ GetStoryById
    \/ DeleteStory

LookupSpec == StorageInit /\ [][LookupNext]_all_vars

StorageSpec == StorageInit /\ [][StorageNext]_all_vars

(***************************************************************************)
(* Properties of the story file.                                           *)
(***************************************************************************)
Listed == storage # None /\ storage.asked # None

\* the story file as get_all_stories read it
FileRead == SubSeq(storage.file, 1, storage.asked[1].stories)

Ids(listed) == { listed[i].id : i \in 1..Len(listed) }

\* the listing holds each story once and the newest first
NewestFirstOnce(listed) ==
    /\ \A i, j \in 1..Len(listed) :
          i < j => /\ NotBefore(listed[i].created, listed[j].created)
                   /\ listed[i].id # listed[j].id
    /\ \A i \in 1..Len(listed) : \E k \in 1..Len(FileRead) : FileRead[k] = listed[i]

StoredUnder(session_id) ==
    { FileRead[k].id : k \in { k \in 1..Len(FileRead) :
                                  FileRead[k].session_id = session_id } }

\* C26: get_all_stories returns the stored stories ordered newest first by
\* creation time, and when given a session id it returns exactly the stories
\* that were saved under that session id: none of another session, none
\* missing.
C26_ListsNewestFirstOfTheSession ==
    Listed =>
        /\ NewestFirstOnce(storage.listed)
        /\ Ids(storage.listed) =
              IF storage.asked[1].session_id = None THEN Ids(FileRead)
              ELSE StoredUnder(storage.asked[1].session_id)

\* C26, amended: the same for every session id that is not empty; for the
\* empty session id, as for none, get_all_stories returns all the stored
\* stories.
C26_ListsNewestFirstOfTheNamedSession ==
    Listed =>
        /\ NewestFirstOnce(storage.listed)
        /\ Ids(storage.listed) =
              IF storage.asked[1].session_id \in {None, << "" >>} THEN Ids(FileRead)
              ELSE StoredUnder(storage.asked[1].session_id)

\* a listing of the session s1 with two of its stories, the one of a whole
\* second and a later one, while the file holds a story of another session
C26_Witness ==
    /\ Listed
    /\ storage.asked[1].session_id = << "s1" >>
    /\ Len(storage.listed) = 2
    /\ Len(storage.file) = 3
    /\ storage.listed[1].created.microsecond = 1
    /\ storage.listed[2].created_at = isoformat([ second |-> 0, microsecond |-> 0 ])
    /\ storage.listed[1].id > storage.listed[2].id

(***************************************************************************)
(* The decision of story_evaluator, taken on its own: every state the      *)
(* node can be handed, whether the graph reaches it or not.                *)
(***************************************************************************)
MaxFormatAttempts == 3  \* format_attempts, where the state has it, is 0..MaxFormatAttempts

\* the states of a decision: the keys the decision reads; format_attempts
\* may be missing
DecisionStates ==
    [ structure_correct : BOOLEAN,
      iteration : 1..(MaxIterations + 1),
      max_iterations : 0..(MaxIterations + 1) ]
    \cup
    [ structure_correct : BOOLEAN,
      iteration : 1..(MaxIterations + 1),
      max_iterations : 0..(MaxIterations + 1),
      format_attempts : 0..MaxFormatAttempts ]

DecisionInit ==
    /\ NoRun
    /\ invocation = None
    /\ parsing = None
    /\ routing = None
    /\ serving = None
    /\ storage = None
    /\ sharing = None
    /\ chatting = None
    /\ deciding \in [ st : DecisionStates, approved : BOOLEAN,
                      next_step : {None}, node : {"story_evaluator"} ]

\* story_evaluator's decision, then route_after_evaluation on the state it
\* was written to
Decide ==
    /\ deciding.node = "story_evaluator"
    /\ LET next_step == DecideNextStep(deciding.st, deciding.approved)
           written == ApplyUpdates(deciding.st, [ next_step |-> next_step ])
       IN  deciding' = [ deciding EXCEPT
                           !.next_step = << next_step >>,
                           !.node = ConditionalEdge(route_after_evaluation(written)) ]
    /\ UNCHANGED <<vars, invocation, parsing, routing, serving, storage, sharing, chatting>>

DecisionNext == Decide

DecisionSpec == DecisionInit /\ [][DecisionNext]_all_vars

(***************************************************************************)
(* Properties of the decision.                                             *)
(***************************************************************************)
Decided == deciding # None /\ deciding.next_step # None

\* the rules in their order of priority
PriorityRules(approved, structure_correct, format_attempts, iteration, max_iterations) ==
    IF ~ structure_correct
    THEN IF format_attempts >= 2 THEN "finalize" ELSE "format_paragraphs"
    ELSE IF approved /\ structure_correct THEN "finalize"
    ELSE IF iteration >= max_iterations THEN "finalize"
    ELSE "refine"

RefinementOf(st, evaluation) ==
    GeneratorCall("story_creator", "refine_story",
                  [ title |-> st["story_title"],
                    content |-> st["story_content"],
                    feedback |-> evaluation.feedback,
                    length_type |-> st["length_type"] ])

\* story_evaluator selected refine in this step
SelectsRefine ==
    /\ node = "story_evaluator"
    /\ node' \notin {"story_evaluator", "RAISED"}
    /\ state'["next_step"] = "refine"

\* story_creator ran in this step (to its return or to its exception)
CreatorRuns == node = "story_creator" /\ node' # "story_creator"

RefineStep ==
    /\ SelectsRefine => node' = "increment_iteration"
    /\ (node = "increment_iteration" /\ node' # node) =>
            /\ node' = "story_creator"
            /\ state'["iteration"] = state["iteration"] + 1
            /\ state'["story_title"] = state["story_title"]
            /\ state'["story_content"] = state["story_content"]
            /\ last_evaluation' = last_evaluation
    /\ (node # "story_creator" /\ node' = "story_creator") =>
            node = "increment_iteration"
    /\ (CreatorRuns /\ calls.create_story > 0) =>
            /\ calls'.generator = RefinementOf(state, last_evaluation)
            /\ calls'.create_story = calls.create_story
            /\ calls'.refine_story = Min(calls.refine_story + 1, CallCap)
    /\ (CreatorRuns /\ calls.create_story = 0) =>
            /\ state["iteration"] = 1
            /\ calls'.generator[1].method = "create_story"
            /\ calls'.create_story = 1
    /\ calls'.create_story # calls.create_story =>
            /\ CreatorRuns
            /\ state["iteration"] = 1
            /\ calls.create_story = 0

\* C28: whenever story_evaluator selects refine the run goes to
\* increment_iteration, which adds exactly 1 to iteration and leaves the
\* draft and the evaluation alone, and story_creator, which runs next, calls
\* refine_story with the state's title and content and the feedback of the
\* most recent evaluation; create_story is called once in a run, by the
\* first execution of story_creator, at iteration 1, and never again.
C28_RefineCallsRefineStoryWithLastFeedback == [][RefineStep]_vars

\* the second draft has come back from refine_story, asked for with the
\* feedback the judge gave on the first
C28_Witness ==
    /\ node = "story_evaluator"
    /\ state["iteration"] = 2
    /\ calls.create_story = 1
    /\ calls.refine_story = 1
    /\ calls.generator # None
    /\ calls.generator[1].method = "refine_story"
    /\ calls.generator[1].by = "story_creator"
    /\ calls.generator[1].arguments.feedback = "Make the moral clearer."
    /\ last_evaluation.feedback = "Make the moral clearer."

(***************************************************************************)
(* Properties of the reformatting.                                         *)
(***************************************************************************)
\* paragraph_formatter ran to its return on a draft of the wrong structure
FormatterReformats ==
    /\ node = "paragraph_formatter"
    /\ ~ state["structure_correct"]
    /\ node' \notin {"paragraph_formatter", "RAISED"}

\* the format attempts story_evaluator reads
format_attempts(st) == Get(st, "format_attempts", 0)

ReformatStep ==
    FormatterReformats =>
        /\ calls'.reformat = Min(calls.reformat + 1, CallCap)
        /\ calls'.generator =
               GeneratorCall("paragraph_formatter", "refine_story",
                             [ feedback |-> StructureFeedback(state["target_paragraphs"]),
                               length_type |-> state["length_type"] ])
        /\ state'["story_content"] \in Contents
        /\ state'["actual_paragraphs"] = count_paragraphs(state'["story_content"])
        /\ state'["structure_correct"] =
               (count_paragraphs(state'["story_content"]) = state["target_paragraphs"])
        /\ node' = "story_evaluator"
        /\ format_attempts(state') = format_attempts(state) + 1

\* C29: each execution of paragraph_formatter on a draft of the wrong
\* structure calls the storyteller once, with the feedback that asks for the
\* required number of paragraphs and nothing else, writes the draft that
\* comes back, computes structure_correct from the new content, is followed
\* by story_evaluator, and leaves format_attempts one higher in the state
\* that story_evaluator reads next.
C29_ReformatCountsItsAttempt == [][ReformatStep]_vars

\* C30: format_attempts is never above 2 and never goes down in a run, and
\* paragraph_formatter has reformatted at most twice in the whole run,
\* whatever the number of refinement iterations.
C30_FormatterRunsAtMostTwice ==
    /\ format_attempts(state) <= 2
    /\ calls.reformat <= 2

(***************************************************************************)
(* Properties of the final record.                                         *)
(***************************************************************************)
\* the scores story_evaluator writes from an evaluation
ScoresOf(evaluation) ==
    [ clarity |-> evaluation.clarity,
      moral_value |-> evaluation.moralValue,
      age_appropriateness |-> evaluation.ageAppropriateness ]

\* the final story carries the draft the judge saw last and its scores
EvaluatedAsFinalized ==
    Finalized =>
        /\ last_evaluation # None
        /\ calls.judge # None
        /\ calls.judge[1].title = state["final_story"].title
        /\ calls.judge[1].content = state["final_story"].content
        /\ state["final_story"].final_scores = ScoresOf(last_evaluation)
        /\ state["final_story"].overall_score = last_evaluation.score

\* a storyteller call is followed by story_evaluator, and finalize_story is
\* entered from story_evaluator only
EvaluatedBeforeFinalized ==
    /\ (node \in {"story_creator", "paragraph_formatter"}
            /\ node' \notin {node, "RAISED"}) => node' = "story_evaluator"
    /\ (node' = "finalize_story" /\ node # "finalize_story") =>
            /\ node = "story_evaluator"
            /\ calls'.judge = JudgeArguments(state')

C32_StoredApprovalIsTheOutcome ==
    \A i \in 1..Len(stories) :
        stories[i].final_score.approved =>
            /\ last_evaluation # None
            /\ Approval(last_evaluation)
            /\ state["approved"]

(***************************************************************************)
(* Runs that follow one another on one thread.  langgraph_server.py        *)
(* compiles the story graph once, at startup, with a MemorySaver, and      *)
(* run_story_generation invokes it with the request's session id as the    *)
(* thread id: the graph starts a later run from the thread's checkpoint,   *)
(* the channels as the run before left them, and writes the initial state  *)
(* to them as it writes any update.                                        *)
(***************************************************************************)
MaxThreadRevisions == 1   \* a thread is used again while its history is this short

\* the requests of /api/story for short stories
ThreadRequests ==
    { req \in Requests : req.caller = "story_endpoint" /\ req.length_type = "short" }

ThreadInit == Init /\ request \in ThreadRequests

\* story_endpoint, called again with the session id of the run that ended
RunAgain ==
    /\ node = "END"
    /\ response # None
    /\ Len(state["revision_history"]) <= MaxThreadRevisions
    /\ request' \in ThreadRequests
    /\ state' = ApplyUpdates(state, initial_state(request'))
    /\ node' = "story_creator"
    /\ calls' = NoCalls
    /\ last_evaluation' = None
    /\ response' = None
    /\ UNCHANGED <<stories, others>>

ThreadNext == Next \/ RunAgain

ThreadSpec == ThreadInit /\ [][ThreadNext]_vars

\* C33: the revision history of a final story has one entry for each
\* execution of story_creator in its run and no other: as many entries as
\* the final story has iterations, the i-th of iteration i, also in a run
\* on a thread an earlier run has used.
C33_HistoryIsOfThisRun ==
    Finalized =>
        LET history == state["final_story"].revision_history
        IN  /\ Len(history) = state["final_story"].iterations
            /\ \A i \in 1..Len(history) : history[i].iteration = i

(***************************************************************************)
(* The three invokers compared.                                            *)
(***************************************************************************)
\* the attempt made last failed
LastAttemptFailed ==
    /\ Invoking
    /\ Tried >= 1
    /\ invocation.attempts[Tried].error # None

\* C34: the storyteller's, the judge's and the conversational agent's
\* invoker are one: after a failed attempt the invoker of any role goes on
\* to the next candidate exactly when the invoker of each other role would,
\* for the same error message at the same position in a list of candidates
\* of the same length.
C34_InvokersDecideAlike ==
    LastAttemptFailed =>
        \A role \in Roles :
            (invocation.outcome = None) <=>
                Continues(role, invocation.attempts[Tried].error, Tried, Candidates)

(***************************************************************************)
(* Invocations that run at once on one agent object.  _invoke_with_fallback *)
(* keeps the client of the attempt in the agent's attribute self.llm: it   *)
(* assigns the attribute and, in the next statement, reads it to invoke.   *)
(* The candidate and the loop's position are locals of each invocation.    *)
(***************************************************************************)
MaxInvocations == 2

Invocations == 1..MaxInvocations

\* ChatGroq(model=model, ...): a client bound to the model
ChatGroq(model) == [ model |-> model ]

\* the messages of the failed attempts: a retryable one and a fatal one
SharedMessages == { RateLimitReached, ConnectionError }

\* _invoke_with_fallback is entered: nothing tried yet
Entered ==
    [ pc |-> "self.llm = ChatGroq",
      attempt |-> 1,
      submitted |-> <<>>,    \* per attempt: the candidate tried, the client invoked
      outcome |-> None ]

SharingInit ==
    /\ NoRun
    /\ invocation = None
    /\ parsing = None
    /\ routing = None
    /\ serving = None
    /\ storage = None
    /\ deciding = None
    /\ chatting = None
    /\ sharing \in [ role : Roles,
                     model_candidates : {DEFAULT_MODELS},
                     llm : {None},
                     running : {[ i \in Invocations |-> Entered ]} ]

Running(i) == sharing.running[i]

\* for model in self.model_candidates
Candidate(i) == sharing.model_candidates[Running(i).attempt]

\* self.llm = ChatGroq(model=model, ...)
AssignClient(i) ==
    /\ Running(i).pc = "self.llm = ChatGroq"
    /\ sharing' = [ sharing EXCEPT
                      !.llm = << ChatGroq(Candidate(i)) >>,
                      !.running[i].pc = "self.llm.invoke" ]
    /\ UNCHANGED <<vars, invocation, parsing, routing, serving, storage, deciding, chatting>>

\* the attempt as it was made: the candidate of the loop, the client invoked
Submitted(i) == [ candidate |-> Candidate(i), client |-> sharing.llm[1] ]

\* return self.llm.invoke(messages)
InvokeReturns(i) ==
    /\ Running(i).pc = "self.llm.invoke"
    /\ sharing' = [ sharing EXCEPT
                      !.running[i].pc = "done",
                      !.running[i].submitted = Append(@, Submitted(i)),
                      !.running[i].outcome =
                          [ kind |-> "returned",
                            value |-> Reply(sharing.llm[1].model) ] ]
    /\ UNCHANGED <<vars, invocation, parsing, routing, serving, storage, deciding, chatting>>

\* self.llm.invoke(messages) raised: except Exception as e
InvokeRaises(i) ==
    /\ Running(i).pc = "self.llm.invoke"
    /\ \E message \in SharedMessages :
          LET e == AttemptError(sharing.llm[1].model, message)
          IN  IF Continues(sharing.role, message, Running(i).attempt,
                           Len(sharing.model_candidates))
              THEN sharing' = [ sharing EXCEPT
                                  !.running[i].pc = "self.llm = ChatGroq",
                                  !.running[i].attempt = @ + 1,
                                  !.running[i].submitted = Append(@, Submitted(i)) ]
              ELSE sharing' = [ sharing EXCEPT
                                  !.running[i].pc = "done",
                                  !.running[i].submitted = Append(@, Submitted(i)),
                                  !.running[i].outcome =
                                      [ kind |-> "raised",
                                        value |-> Raised(sharing.role, e) ] ]
    /\ UNCHANGED <<vars, invocation, parsing, routing, serving, storage, deciding, chatting>>

SharingNext ==
    \E i \in Invocations :
        \/ AssignClient(i)
        \/ InvokeReturns(i)
        \/ InvokeRaises(i)

SharingSpec == SharingInit /\ [][SharingNext]_all_vars

\* C35: with two invocations running at once on one agent, every attempt
\* of an invocation submits its conversation to the client built for the
\* candidate that invocation is trying: the client one invocation put in
\* self.llm is never the one the other invokes.
C35_AttemptUsesItsOwnClient ==
    sharing # None =>
        \A i \in Invocations :
            \A k \in 1..Len(Running(i).submitted) :
                Running(i).submitted[k].client = ChatGroq(Running(i).submitted[k].candidate)

(***************************************************************************)
(* Properties of the identity extraction.                                  *)
(***************************************************************************)
\* extract_user_info did not come to its end: the model call raised, the
\* reply was no JSON, or the age in it was no number
ExtractionFailed(outcome) ==
    \/ outcome.raised
    \/ ~ outcome.content.json
    \/ outcome.content.age \notin {"null", "7"}

\* C37: when the identity extraction fails for a message (the model call
\* fails, the reply is not valid JSON, or the extracted age is not a
\* number), the session's name and age are both as they were before the
\* message: no failed extraction leaves a part of its update behind.
C37_FailedExtractionChangesNothing ==
    (routing # None /\ routing.extraction # None
        /\ ExtractionFailed(routing.extraction[1].outcome)) =>
        routing.ctx = routing.extraction[1].ctx

(***************************************************************************)
(* The sessions of one conversational agent.  Every request of the chat    *)
(* route carries a session id, none (None) or a string, the empty one      *)
(* included; process_message runs for one request at a time.               *)
(***************************************************************************)
MaxMessages == 2        \* the requests the agent serves

DEFAULT_SESSION_ID == "default"

\* request.session_id: Optional[str]
CarriedIds == { None, <<"">>, << DEFAULT_SESSION_ID >>, <<"A">> }

\* sid = session_id or self.config.DEFAULT_SESSION_ID
Sid(session_id) ==
    IF session_id = None \/ session_id = <<"">>
    THEN DEFAULT_SESSION_ID
    ELSE session_id[1]

Sids == { Sid(session_id) : session_id \in CarriedIds }

\* no fact learned under any identifier
NothingLearned == [ session_id \in CarriedIds |-> [ names |-> {}, ages |-> {} ] ]

ChattingInit ==
    /\ NoRun
    /\ invocation = None
    /\ parsing = None
    /\ routing = None
    /\ serving = None
    /\ storage = None
    /\ deciding = None
    /\ sharing = None
    /\ chatting = [ sessions |-> [ sid \in Sids |-> None ],  \* self.sessions
                    learned |-> NothingLearned,   \* the facts extracted from the
                                                  \* requests that carried each id
                    served |-> 0,
                    call |-> None ]     \* the call of process_message that
                                        \* runs or ran last

\* _get_session: self.sessions[sid], created when it is not there
GetOrCreate(sessions, sid) ==
    IF sessions[sid] = None THEN [ name |-> None, age |-> None ] ELSE sessions[sid][1]

\* what an extraction adds to the facts learned under the id of its request:
\* the name and the age it writes
Learned(was, outcome) ==
    LET written == ExtractedInfo([ name |-> None, age |-> None ], outcome)
    IN  [ names |-> IF written.name # None THEN was.names \cup { written.name[1] }
                    ELSE was.names,
          ages |-> IF written.age # None THEN was.ages \cup { written.age[1] }
                   ELSE was.ages ]

\* chat: process_message begins, and extract_user_info writes what it
\* extracts into the context of the session
ChatExtracts ==
    /\ chatting.served < MaxMessages
    /\ IF chatting.call = None THEN TRUE ELSE chatting.call[1].pc = "returned"
    /\ \E session_id \in CarriedIds, message \in UserMessages,
          outcome \in CallOutcomes(ExtractionReplies) :
          LET sid == Sid(session_id)
              ctx == GetOrCreate(chatting.sessions, sid)
              after == ExtractedInfo(ctx, outcome)
          IN  chatting' = [ chatting EXCEPT
                              !.sessions[sid] = << after >>,
                              !.learned[session_id] = Learned(@, outcome),
                              !.call = << [ session_id |-> session_id,
                                            message |-> message,
                                            pc |-> "is_inappropriate_content",
                                            outcome |-> None ] >> ]
    /\ UNCHANGED <<vars, invocation, parsing, routing, serving, storage, deciding, sharing>>

\* the checks and the handler of process_message, with the context of the
\* session
ChatResponds ==
    /\ chatting.call # None
    /\ chatting.call[1].pc = "is_inappropriate_content"
    /\ \E outcome \in RouteOutcomes(chatting.call[1].message, <<>>,
                                    GetOrCreate(chatting.sessions,
                                                Sid(chatting.call[1].session_id))) :
          chatting' = [ chatting EXCEPT
                          !.served = @ + 1,
                          !.call[1].pc = "returned",
                          !.call[1].outcome = << outcome >> ]
    /\ UNCHANGED <<vars, invocation, parsing, routing, serving, storage, deciding, sharing>>

ChattingNext == ChatExtracts \/ ChatResponds

ChattingSpec == ChattingInit /\ [][ChattingNext]_all_vars

\* the call that ended last answered with a response
Responded ==
    /\ chatting # None
    /\ chatting.call # None
    /\ chatting.call[1].outcome # None
    /\ ~ chatting.call[1].outcome[1].raised

\* C36: the response to a request depends on the identity facts learned
\* under the session identifier the request carries and on no others: a
\* name or an age in the response was learned in a request that carried the
\* same identifier, also when the request carries no session id or an empty
\* one.
C36_ResponseUsesOwnSessionOnly ==
    Responded =>
        LET call == chatting.call[1]
            text == call.outcome[1].result.response
            own == chatting.learned[call.session_id]
        IN  /\ \A N \in {"Mia", "Mckay"} : In(<< N >>, text) => N \in own.names
            /\ In(<<"You're ">> \o Numeral(7), text) => 7 \in own.ages


(***************************************************************************)
(* The nodes as callables (langgraph_workflow.py): what each leaves alone. *)
(***************************************************************************)
\* the nodes whose returned dictionaries are compared with the state they read
FramedNodes == {"story_evaluator", "paragraph_formatter", "increment_iteration"}

\* A node is a callable of the state: each is handed a state a drafted and
\* judged story leaves behind, paragraph_formatter also one whose structure is
\* already correct (its first branch, which the compiled graph's routing
\* never enters).
NodeInit ==
    /\ request \in Requests
    /\ node \in FramedNodes
    /\ \E result \in StorytellerReplies, evaluation \in JudgeReplies :
           LET drafted == ApplyUpdates(initial_state(request),
                              StoryCreatorUpdates(initial_state(request), result))
           IN  state = ApplyUpdates(drafted, StoryEvaluatorUpdates(drafted, evaluation))
    /\ calls = NoCalls
    /\ last_evaluation = None
    /\ response = None
    /\ stories = <<>>
    /\ invocation = None
    /\ parsing = None
    /\ routing = None
    /\ serving = None
    /\ storage = None
    /\ deciding = None
    /\ sharing = None
    /\ chatting = None

NodeNext ==
    \/ StoryEvaluatorReturns
    \/ ParagraphFormatterReturns
    \/ IncrementIteration

NodeSpec == NodeInit /\ [][NodeNext]_vars

\* the step wrote, removed or changed the key
Changed(key) ==
    \/ (key \in DOMAIN state) # (key \in DOMAIN state')
    \/ key \in DOMAIN state /\ key \in DOMAIN state' /\ state[key] # state'[key]

\* every key the state has, had or declares
AllKeys == StateKeys \cup {"format_attempts"} \cup DOMAIN state \cup DOMAIN state'

EvaluatorWrites ==
    {"quality_scores", "overall_score", "evaluation_feedback", "approved", "next_step"}

IncrementWrites == {"iteration", "next_step"}

FormatterKeeps ==
    {"iteration", "max_iterations", "prompt", "length_type", "target_paragraphs"}

NodeKeepsItsFrame ==
    /\ node = "story_evaluator" =>
           \A key \in AllKeys \ EvaluatorWrites : ~ Changed(key)
    /\ node = "increment_iteration" =>
           \A key \in AllKeys \ IncrementWrites : ~ Changed(key)
    /\ node = "paragraph_formatter" =>
           /\ \A key \in FormatterKeeps : ~ Changed(key)
           /\ state["structure_correct"] =>
                  \A key \in AllKeys \ {"next_step"} : ~ Changed(key)

\* C38: story_evaluator changes only the scores, the feedback, approved and
\* next_step; increment_iteration changes only iteration and next_step;
\* paragraph_formatter never changes iteration, max_iterations, prompt,
\* length_type or target_paragraphs, and changes nothing but next_step when the
\* structure is already correct.
C38_NodesKeepTheirFrame == [][NodeKeepsItsFrame]_vars

\* paragraph_formatter returned from its first branch: the structure was
\* correct, no storyteller call was made, and the evaluator is next
C38_Witness ==
    /\ node = "story_evaluator"
    /\ state["next_step"] = "evaluate"
    /\ state["structure_correct"]
    /\ calls.reformat = 0
    /\ state["overall_score"] > 0


(***************************************************************************)
(* Looking up what was saved.                                              *)
(***************************************************************************)
LookedUp == storage # None /\ storage.got # None

\* C39: when save_story returned a record carrying an _id, a following
\* get_story_by_id with that _id returns that record until it is deleted,
\* also when the save could not be written.
C39_ReturnedIdCanBeLookedUp ==
    LookedUp /\ storage.got[1].handed =>
        /\ storage.got[1].found # None
        /\ storage.got[1].found[1].id = storage.got[1].story_id

====
